---- MODULE Spec2Model ----
EXTENDS Integers, Sequences, FiniteSets, TLC

(***************************************************************************)
(* Model of one combatCharacter (src/combatCharacter.py) and of the auto   *)
(* and special actions of src/action.py that drive its death/dying state   *)
(* machine.  A Python exception is modelled by the field err: the handler   *)
(* keeps the mutations it made before the raise, err names the exception,   *)
(* and the simulation stops (no action is enabled once err is set).         *)
(* team, char_stats, char_resources and char_conditions are the objects of  *)
(* the character that acts; party holds the other characters of an          *)
(* encounter, the targets of its actions.  _cache holds the attack objects  *)
(* the action objects have made, by action and attack name.                 *)
(***************************************************************************)

VARIABLES team, char_stats, char_resources, char_conditions, err, last, party, _cache

vars == <<team, char_stats, char_resources, char_conditions, err, last, party, _cache>>

\* ------------------------------------------------------------------ bounds
\* the max_hp the modelled character is created with
MaxHpBound == 2
\* the dodge action is not repeated once dodge has this many turns remaining
MaxDodgeTurns == 1

\* temporary hit points are not granted to a character that has this many
MaxTempHp == 1

\* a timed condition is not given more time once it has more than this remaining
MaxRemaining == 1

\* no further condition is given to a character that holds this many
MaxHeld == 2

\* the largest amount of a duration given to the timed condition whose clock
\* is followed, the largest amount of one time_passed, and the number of
\* check_condition calls made on it
MaxDuration == 2

MaxElapsed == 2

MaxAdvances == 3

\* the interpreter's limit on nested calls (sys.getrecursionlimit(), 1000 by
\* default), scaled down: a call nested deeper raises RecursionError
MaxCallDepth == 8

\* --------------------------------------------------------------- constants
TIME_UNITS == [u \in {"round", "second", "minute", "hour", "day", "sont", "eont"} |->
                 CASE u = "round"  -> 6
                   [] u = "second" -> 1
                   [] u = "minute" -> 60
                   [] u = "hour"   -> 3600
                   [] u = "day"    -> 86400
                   [] u = "sont"   -> 3
                   [] u = "eont"   -> 3]

ValidUnits == {"round", "second", "minute", "hour", "day", "sont", "eont"}

HitDieFaces == {6, 8, 10, 12}

\* the spell slot levels: range(1, 10)
SlotLevels == 1..9

Teams == {"pc", "ally", "enemy"}

\* a duration string: 'indefinite', or '<amount> <unit>'
Indefinite == [indefinite |-> TRUE, amount |-> 0, unit |-> ""]

Timed(amount, unit) == [indefinite |-> FALSE, amount |-> amount, unit |-> unit]

\* ------------------------------------------------------- float arithmetic
\* Python floats are IEEE doubles: every operation gives the exact result
\* rounded to 53 significant bits, ties to even. A float is held here as a
\* sign and a magnitude in fixed point: a sequence of Limbs digits in base
\* 2^LimbBits, the least significant first, FracLimbs of them below the
\* binary point (72 bits below it and 24 above).
MantissaBits == 53

LimbBits == 12

Limbs == 8

FracLimbs == 6

\* 2^n
RECURSIVE Pow2(_)
Pow2(n) == IF n = 0 THEN 1 ELSE 2 * Pow2(n - 1)

LimbBase == Pow2(LimbBits)

ZeroMag == [k \in 1..Limbs |-> 0]

\* the magnitude of a non-negative integer below 2^24
MagOfInt(n) ==
    [k \in 1..Limbs |->
        IF k = FracLimbs + 1 THEN n % LimbBase
        ELSE IF k = FracLimbs + 2 THEN n \div LimbBase
        ELSE 0]

\* bit i of a magnitude, bit 1 being the least significant
Bit(m, i) == (m[(i - 1) \div LimbBits + 1] \div Pow2((i - 1) % LimbBits)) % 2

\* the index of the highest bit set, 0 for zero
TopBit(m) ==
    IF m = ZeroMag THEN 0
    ELSE LET k == CHOOSE j \in 1..Limbs : m[j] # 0 /\ \A h \in (j + 1)..Limbs : m[h] = 0
             b == CHOOSE j \in 1..LimbBits : Pow2(j - 1) <= m[k] /\ m[k] < Pow2(j)
         IN (k - 1) * LimbBits + b

\* a >= b on magnitudes
GeMag(a, b) ==
    \/ a = b
    \/ LET k == CHOOSE j \in 1..Limbs : a[j] # b[j] /\ \A h \in (j + 1)..Limbs : a[h] = b[h]
       IN a[k] > b[k]

\* a + b on magnitudes, carry being the carry into limb k
RECURSIVE AddLimbs(_, _, _, _)
AddLimbs(a, b, k, carry) ==
    IF k > Limbs THEN <<>>
    ELSE <<(a[k] + b[k] + carry) % LimbBase>>
         \o AddLimbs(a, b, k + 1, (a[k] + b[k] + carry) \div LimbBase)

AddMag(a, b) == AddLimbs(a, b, 1, 0)

\* a - b on magnitudes, for a >= b
RECURSIVE SubLimbs(_, _, _, _)
SubLimbs(a, b, k, borrow) ==
    IF k > Limbs THEN <<>>
    ELSE <<(a[k] - b[k] - borrow + LimbBase) % LimbBase>>
         \o SubLimbs(a, b, k + 1, IF a[k] - b[k] - borrow < 0 THEN 1 ELSE 0)

SubMag(a, b) == SubLimbs(a, b, 1, 0)

\* m * n on magnitudes for a non-negative integer n below 2^16
RECURSIVE TimesLimbs(_, _, _, _)
TimesLimbs(m, n, k, carry) ==
    IF k > Limbs THEN <<>>
    ELSE <<(m[k] * n + carry) % LimbBase>>
         \o TimesLimbs(m, n, k + 1, (m[k] * n + carry) \div LimbBase)

TimesMag(m, n) == TimesLimbs(m, n, 1, 0)

\* the magnitude 2^(i-1), the one whose only bit is bit i
BitMag(i) == [k \in 1..Limbs |-> IF k = (i - 1) \div LimbBits + 1 THEN Pow2((i - 1) % LimbBits) ELSE 0]

\* m without its lowest cut bits
CutMag(m, cut) ==
    [k \in 1..Limbs |->
        IF k * LimbBits <= cut THEN 0
        ELSE IF (k - 1) * LimbBits >= cut THEN m[k]
        ELSE m[k] - (m[k] % Pow2(cut - (k - 1) * LimbBits))]

\* the exact magnitude m, with sticky telling that something below its last
\* bit was cut off already, rounded to MantissaBits significant bits
RoundMag(m, sticky) ==
    LET cut == TopBit(m) - MantissaBits
    IN IF cut <= 0 THEN m
       ELSE LET kept == CutMag(m, cut)
                below == sticky \/ CutMag(m, cut - 1) # m
                up == Bit(m, cut) = 1 /\ (below \/ Bit(m, cut + 1) = 1)
            IN IF up THEN AddMag(kept, BitMag(cut + 1)) ELSE kept

Float(neg, mag) == [neg |-> neg /\ mag # ZeroMag, mag |-> mag]

\* float(n) of a non-negative integer
FloatOfInt(n) == Float(FALSE, MagOfInt(n))

\* x + y
FloatAdd(x, y) ==
    IF x.neg = y.neg THEN Float(x.neg, RoundMag(AddMag(x.mag, y.mag), FALSE))
    ELSE IF GeMag(x.mag, y.mag) THEN Float(x.neg, RoundMag(SubMag(x.mag, y.mag), FALSE))
    ELSE Float(y.neg, RoundMag(SubMag(y.mag, x.mag), FALSE))

\* x - y
FloatSub(x, y) == FloatAdd(x, Float(~y.neg, y.mag))

\* x * float(n) for a non-negative integer n
FloatTimesInt(x, n) == Float(x.neg, RoundMag(TimesMag(x.mag, n), FALSE))

\* the long division of num by b: the remainder left once the limbs from the
\* highest down to limb k are divided
RECURSIVE DivRem(_, _, _)
DivRem(num, b, k) ==
    IF k > Limbs THEN 0 ELSE (DivRem(num, b, k + 1) * LimbBase + num[k]) % b

\* float(a) / float(b) for positive integers a and b below 2^17
FloatDiv(a, b) ==
    LET num == MagOfInt(a)
        q == [k \in 1..Limbs |-> (DivRem(num, b, k + 1) * LimbBase + num[k]) \div b]
    IN Float(FALSE, RoundMag(q, DivRem(num, b, 1) # 0))

\* x <= 0
FloatLeZero(x) == x.neg \/ x.mag = ZeroMag

\* x < y
FloatLt(x, y) ==
    IF x.neg # y.neg THEN x.neg
    ELSE IF x.neg THEN ~GeMag(y.mag, x.mag)
    ELSE ~GeMag(x.mag, y.mag)

\* ------------------------------------------------------- character record
\* The operators below work on a record c holding one character's objects.
\* Besides the objects it carries the trace of the running handler: events
\* lists, in order, the calls made and the registry entries deleted, depth is
\* the number of add_condition/remove_condition frames on the stack and
\* max_depth the largest value depth has had; ret lists the values of the
\* dict a spell handler returns.
Self == [team |-> team, char_stats |-> char_stats, char_resources |-> char_resources,
         char_conditions |-> char_conditions, err |-> err,
         events |-> <<>>, depth |-> 0, max_depth |-> 0, ret |-> <<>>]

Raise(c, e) == [c EXCEPT !.err = e]

\* a call or a deletion happens: it is appended to the trace
Log(c, what, name) == [c EXCEPT !.events = Append(@, <<what, name>>)]

\* a frame of add_condition or remove_condition is pushed / popped
Enter(c) == [c EXCEPT !.depth = @ + 1,
                      !.max_depth = IF c.depth + 1 > @ THEN c.depth + 1 ELSE @]

Leave(c) == IF c.err # "none" THEN c ELSE [c EXCEPT !.depth = @ - 1]

\* the elements of a list
Range(seq) == {seq[i] : i \in DOMAIN seq}

\* name in self.char_conditions
HasCond(c, name) == \E i \in DOMAIN c.char_conditions : c.char_conditions[i].name = name

CondIndex(c, name) == CHOOSE i \in DOMAIN c.char_conditions : c.char_conditions[i].name = name

CondNames(conds) == {conds[i].name : i \in DOMAIN conds}

\* del self.char_conditions[name]
DelCond(conds, name) == SelectSeq(conds, LAMBDA x : x.name # name)

\* stats.get_mod: (ability_score-10) // 2, a floor division like \div
get_mod(c, ability) == (c.char_stats[ability] - 10) \div 2

\* ----------------------------------------------------------- condition
\* condition.__init__: an indefinite condition returns before _stored is set
condition_init(name, duration) ==
    IF duration.indefinite
    THEN [name |-> name, indefinite |-> TRUE, unit |-> "", remaining |-> FloatOfInt(0),
          valid |-> TRUE, has_stored |-> FALSE, _stored |-> <<>>]
    ELSE [name |-> name, indefinite |-> FALSE, unit |-> duration.unit,
          remaining |-> FloatOfInt(duration.amount),
          valid |-> TRUE, has_stored |-> TRUE, _stored |-> <<>>]

\* the new remaining time as it would be if sont and eont conditions lost
\* time with every unit
check_condition_remaining_converts(cond, time_passed) ==
    LET converted == FloatTimesInt(FloatDiv(TIME_UNITS[time_passed.unit], TIME_UNITS[cond.unit]),
                                   time_passed.amount)
    IN IF cond.unit = time_passed.unit
       THEN FloatSub(cond.remaining, FloatOfInt(time_passed.amount))
       ELSE FloatSub(cond.remaining, converted)

\* the new remaining time of a timed condition after time_passed
check_condition_remaining(cond, time_passed) ==
    LET converted == FloatTimesInt(FloatDiv(TIME_UNITS[time_passed.unit], TIME_UNITS[cond.unit]),
                                   time_passed.amount)
    IN IF cond.unit = time_passed.unit
       THEN FloatSub(cond.remaining, FloatOfInt(time_passed.amount))
       ELSE IF cond.unit \in {"sont", "eont"}
       THEN IF time_passed.unit \in {"minute", "hour", "day"}
            THEN FloatSub(cond.remaining, converted)
            ELSE cond.remaining
       ELSE FloatSub(cond.remaining, converted)

\* condition.check_condition: the condition after the check (its return value
\* is TRUE exactly when the result has valid = FALSE or it has just ended)
check_condition(cond, time_passed) ==
    IF cond.indefinite THEN cond
    ELSE LET r == check_condition_remaining(cond, time_passed)
         IN [cond EXCEPT !.remaining = r, !.valid = IF FloatLeZero(r) THEN FALSE ELSE @]

\* condition.add_time on the registry entry called name
add_time(c, name, duration) ==
    LET i == CondIndex(c, name)
        cond == c.char_conditions[i]
    IN IF cond.indefinite THEN c
       ELSE IF duration.indefinite THEN Raise(c, "ValueError")
       ELSE IF duration.unit \notin ValidUnits THEN Raise(c, "ValueError")
       ELSE IF cond.unit = duration.unit
       THEN [c EXCEPT !.char_conditions[i].remaining = FloatAdd(@, FloatOfInt(duration.amount))]
       ELSE [c EXCEPT !.char_conditions[i].remaining =
                FloatAdd(@, FloatTimesInt(FloatDiv(TIME_UNITS[duration.unit], TIME_UNITS[cond.unit]),
                                          duration.amount))]

\* _effect_on_gain as it would be if gaining stabilized left the tally alone
_effect_on_gain_keeps_tally(c, name) ==
    LET i == CondIndex(c, name)
        cond == c.char_conditions[i]
    IN IF name \in {"grappled", "restrained"}
       THEN IF ~cond.has_stored THEN Raise(c, "AttributeError")
            ELSE [c EXCEPT !.char_conditions[i]._stored = <<c.char_stats.speed>>,
                           !.char_stats.speed = 0,
                           !.char_resources.movement = 0]
       ELSE c

_effect_on_gain(c, name) ==
    LET i == CondIndex(c, name)
        cond == c.char_conditions[i]
    IN IF name \in {"grappled", "restrained"}
       THEN IF ~cond.has_stored THEN Raise(c, "AttributeError")
            ELSE [c EXCEPT !.char_conditions[i]._stored = <<c.char_stats.speed>>,
                           !.char_stats.speed = 0,
                           !.char_resources.movement = 0]
       ELSE IF name = "stabilized"
       THEN [c EXCEPT !.char_resources.death_saves = [success |-> 0, fail |-> 0]]
       ELSE c

\* _effect_on_loss as it would be if losing dying left the tally alone
_effect_on_loss_keeps_tally(c, name) ==
    LET i == CondIndex(c, name)
        cond == c.char_conditions[i]
    IN IF name \in {"grappled", "restrained"}
       THEN IF ~cond.has_stored THEN Raise(c, "AttributeError")
            ELSE IF cond._stored = <<>> THEN Raise(c, "KeyError")
            ELSE [c EXCEPT !.char_stats.speed = cond._stored[1],
                           !.char_resources.movement = cond._stored[1]]
       ELSE c

_effect_on_loss(c, name) ==
    LET i == CondIndex(c, name)
        cond == c.char_conditions[i]
    IN IF name \in {"grappled", "restrained"}
       THEN IF ~cond.has_stored THEN Raise(c, "AttributeError")
            ELSE IF cond._stored = <<>> THEN Raise(c, "KeyError")
            ELSE [c EXCEPT !.char_stats.speed = cond._stored[1],
                           !.char_resources.movement = cond._stored[1]]
       ELSE IF name = "dying"
       THEN [c EXCEPT !.char_resources.death_saves = [success |-> 0, fail |-> 0]]
       ELSE c

\* ------------------------------------------------- add / remove condition
IncapacitatingConditions == {"paralyzed", "petrified", "stunned", "unconscious"}

RECURSIVE add_condition(_, _, _), remove_condition(_, _)

\* remove_condition as it would be if losing a condition removed no other
remove_condition_alone(c, name) ==
    IF c.err # "none" THEN c
    ELSE IF c.depth >= MaxCallDepth THEN Raise(c, "RecursionError")
    ELSE LET c0 == Log(Enter(c), "remove_condition", name)
         IN IF ~HasCond(c0, name) THEN Raise(c0, "KeyError")
            ELSE LET c1 == _effect_on_loss(Log(c0, "_effect_on_loss", name), name)
                     c2 == IF c1.err # "none" THEN c1
                           ELSE Log([c1 EXCEPT !.char_conditions = DelCond(@, name)], "del", name)
                 IN Leave(c2)

\* remove_condition as it would be if it deleted the entry without calling
\* the loss hook
remove_condition_skips_hook(c, name) ==
    IF c.err # "none" THEN c
    ELSE IF c.depth >= MaxCallDepth THEN Raise(c, "RecursionError")
    ELSE LET c0 == Log(Enter(c), "remove_condition", name)
         IN IF ~HasCond(c0, name) THEN Raise(c0, "KeyError")
            ELSE LET c2 == Log([c0 EXCEPT !.char_conditions = DelCond(@, name)], "del", name)
                     c3 == IF name = "dying" THEN remove_condition(c2, "unconscious") ELSE c2
                     c4 == IF name \in IncapacitatingConditions
                           THEN remove_condition(c3, "incapacitated") ELSE c3
                 IN Leave(c4)

\* combatCharacter.remove_condition: a missing name is logged and then looked
\* up all the same, which raises KeyError
remove_condition(c, name) ==
    IF c.err # "none" THEN c
    ELSE IF c.depth >= MaxCallDepth THEN Raise(c, "RecursionError")
    ELSE LET c0 == Log(Enter(c), "remove_condition", name)
         IN IF ~HasCond(c0, name) THEN Raise(c0, "KeyError")
            ELSE LET c1 == _effect_on_loss(Log(c0, "_effect_on_loss", name), name)
                     c2 == IF c1.err # "none" THEN c1
                           ELSE Log([c1 EXCEPT !.char_conditions = DelCond(@, name)], "del", name)
                     c3 == IF name = "dying" THEN remove_condition(c2, "unconscious") ELSE c2
                     c4 == IF name \in IncapacitatingConditions
                           THEN remove_condition(c3, "incapacitated") ELSE c3
                 IN Leave(c4)

\* add_condition as it would be without the test for a name already held
add_condition_regains(c, name, duration) ==
    IF c.err # "none" THEN c
    ELSE IF c.depth >= MaxCallDepth THEN Raise(c, "RecursionError")
    ELSE LET ce == Log(Enter(c), "add_condition", name)
             c0 == [ce EXCEPT !.char_conditions = Append(@, condition_init(name, duration))]
             c1 == _effect_on_gain(Log(c0, "_effect_on_gain", name), name)
             c2 == IF name = "dying"
                   THEN add_condition(c1, "unconscious", Indefinite) ELSE c1
             c3 == IF name \in IncapacitatingConditions
                   THEN add_condition(c2, "incapacitated", Indefinite) ELSE c2
             c4 == IF name = "unconscious"
                   THEN add_condition(c3, "prone", Indefinite) ELSE c3
             c5 == IF name = "incapacitated" THEN remove_condition(c4, "dodge") ELSE c4
         IN Leave(c5)

\* add_condition as it would be if gaining incapacitated removed incapacitated
\* itself and gained it again
add_condition_cyclic(c, name, duration) ==
    IF c.err # "none" THEN c
    ELSE IF c.depth >= MaxCallDepth THEN Raise(c, "RecursionError")
    ELSE LET ce == Log(Enter(c), "add_condition", name)
         IN IF HasCond(ce, name) THEN Leave(add_time(Log(ce, "add_time", name), name, duration))
            ELSE IF ~duration.indefinite /\ duration.unit \notin ValidUnits
            THEN Raise(ce, "ValueError")
            ELSE LET c0 == [ce EXCEPT !.char_conditions = Append(@, condition_init(name, duration))]
                     c1 == _effect_on_gain(Log(c0, "_effect_on_gain", name), name)
                     c2 == IF name = "dying"
                           THEN add_condition(c1, "unconscious", Indefinite) ELSE c1
                     c3 == IF name \in IncapacitatingConditions
                           THEN add_condition(c2, "incapacitated", Indefinite) ELSE c2
                     c4 == IF name = "unconscious"
                           THEN add_condition(c3, "prone", Indefinite) ELSE c3
                     c5 == IF name = "incapacitated"
                           THEN add_condition(remove_condition(c4, "incapacitated"),
                                              "incapacitated", Indefinite)
                           ELSE c4
                 IN Leave(c5)

\* combatCharacter.add_condition
add_condition(c, name, duration) ==
    IF c.err # "none" THEN c
    ELSE IF c.depth >= MaxCallDepth THEN Raise(c, "RecursionError")
    ELSE LET ce == Log(Enter(c), "add_condition", name)
         IN IF HasCond(ce, name) THEN Leave(add_time(Log(ce, "add_time", name), name, duration))
            ELSE IF ~duration.indefinite /\ duration.unit \notin ValidUnits
            THEN Raise(ce, "ValueError")
            ELSE LET c0 == [ce EXCEPT !.char_conditions = Append(@, condition_init(name, duration))]
                     c1 == _effect_on_gain(Log(c0, "_effect_on_gain", name), name)
                     c2 == IF name = "dying"
                           THEN add_condition(c1, "unconscious", Indefinite) ELSE c1
                     c3 == IF name \in IncapacitatingConditions
                           THEN add_condition(c2, "incapacitated", Indefinite) ELSE c2
                     c4 == IF name = "unconscious"
                           THEN add_condition(c3, "prone", Indefinite) ELSE c3
                     c5 == IF name = "incapacitated" THEN remove_condition(c4, "dodge") ELSE c4
                 IN Leave(c5)

\* the second loop of check_all_conditions: remove_condition on each name of
\* delete_list in order
RECURSIVE remove_all(_, _)
remove_all(c, delete_list) ==
    IF delete_list = <<>> THEN c
    ELSE remove_all(remove_condition(c, Head(delete_list)), Tail(delete_list))

\* check_all_conditions as it would be without its second loop
check_all_conditions_keeps(c, time_passed) ==
    IF c.err # "none" THEN c
    ELSE IF c.char_conditions = <<>> THEN c
    ELSE LET old == c.char_conditions
             checked == [i \in DOMAIN old |-> check_condition(old[i], time_passed)]
             calls == [i \in DOMAIN old |-> <<"check_condition", old[i].name>>]
         IN [c EXCEPT !.char_conditions = checked, !.events = @ \o calls]

\* combatCharacter.check_all_conditions: every condition is checked first, the
\* ended ones are removed afterwards
check_all_conditions(c, time_passed) ==
    IF c.err # "none" THEN c
    ELSE IF c.char_conditions = <<>> THEN c
    ELSE LET old == c.char_conditions
             checked == [i \in DOMAIN old |-> check_condition(old[i], time_passed)]
             ended == SelectSeq(checked, LAMBDA x : ~x.valid)
             delete_list == [i \in DOMAIN ended |-> ended[i].name]
             calls == [i \in DOMAIN old |-> <<"check_condition", old[i].name>>]
         IN remove_all([c EXCEPT !.char_conditions = checked, !.events = @ \o calls],
                       delete_list)

\* --------------------------------------------------------------- resources
\* heal_hp as it would be without the test for a dead character
heal_hp_heals_dead(c, amount) ==
    IF c.err # "none" THEN c
    ELSE LET c1 == IF amount < 0
                   THEN [c EXCEPT !.char_resources.hp = c.char_stats.max_hp]
                   ELSE [c EXCEPT !.char_resources.hp =
                            IF @ + amount < c.char_stats.max_hp THEN @ + amount
                            ELSE c.char_stats.max_hp]
         IN IF c1.char_resources.hp > 0 /\ HasCond(c1, "dying")
            THEN remove_condition(c1, "dying")
            ELSE c1

\* heal_hp as it would be if it never removed dying
heal_hp_keeps_dying(c, amount) ==
    IF c.err # "none" THEN c
    ELSE IF HasCond(c, "death") THEN c
    ELSE IF amount < 0
    THEN [c EXCEPT !.char_resources.hp = c.char_stats.max_hp]
    ELSE [c EXCEPT !.char_resources.hp =
             IF @ + amount < c.char_stats.max_hp THEN @ + amount
             ELSE c.char_stats.max_hp]

\* resources.heal_hp: a dead character is logged and left alone (returns 0)
heal_hp(c, amount) ==
    IF c.err # "none" THEN c
    ELSE IF HasCond(c, "death") THEN c
    ELSE LET c1 == IF amount < 0
                   THEN [c EXCEPT !.char_resources.hp = c.char_stats.max_hp]
                   ELSE [c EXCEPT !.char_resources.hp =
                            IF @ + amount < c.char_stats.max_hp THEN @ + amount
                            ELSE c.char_stats.max_hp]
         IN IF c1.char_resources.hp > 0 /\ HasCond(c1, "dying")
            THEN remove_condition(c1, "dying")
            ELSE c1

Abs(x) == IF x < 0 THEN -x ELSE x

\* remove_hp as it would be if only damage beyond max_hp killed outright
remove_hp_strict(c, amount) ==
    IF c.err # "none" THEN c
    ELSE IF amount < 0 THEN Raise(c, "ValueError")
    ELSE LET remainder == c.char_resources.hp - amount
             c1 == [c EXCEPT !.char_resources.hp = IF remainder > 0 THEN remainder ELSE 0]
         IN IF c1.char_resources.hp = 0
            THEN IF c.team = "pc" \/ "important" \in DOMAIN c.char_stats.property
                 THEN IF Abs(remainder) > c.char_stats.max_hp
                      THEN add_condition(c1, "death", Indefinite)
                      ELSE add_condition(c1, "dying", Indefinite)
                 ELSE add_condition(c1, "death", Indefinite)
            ELSE c1

\* resources.remove_hp
remove_hp(c, amount) ==
    IF c.err # "none" THEN c
    ELSE IF amount < 0 THEN Raise(c, "ValueError")
    ELSE LET remainder == c.char_resources.hp - amount
             c1 == [c EXCEPT !.char_resources.hp = IF remainder > 0 THEN remainder ELSE 0]
         IN IF c1.char_resources.hp = 0
            THEN IF c.team = "pc" \/ "important" \in DOMAIN c.char_stats.property
                 THEN IF Abs(remainder) >= c.char_stats.max_hp
                      THEN add_condition(c1, "death", Indefinite)
                      ELSE add_condition(c1, "dying", Indefinite)
                 ELSE add_condition(c1, "death", Indefinite)
            ELSE c1

\* _gain_death_save as it would be if it added one failure whatever the count
_gain_death_save_single(c, success, count) ==
    IF c.err # "none" THEN c
    ELSE LET c1 == IF success
                   THEN [c EXCEPT !.char_resources.death_saves.success = @ + 1]
                   ELSE [c EXCEPT !.char_resources.death_saves.fail = @ + 1]
         IN IF c1.char_resources.death_saves.success >= 3
            THEN add_condition(c1, "stabilized", Indefinite)
            ELSE IF c1.char_resources.death_saves.fail >= 3
            THEN add_condition(remove_condition(c1, "dying"), "death", Indefinite)
            ELSE IF c1.char_resources.death_saves.fail > 0 /\ HasCond(c1, "stabilized")
            THEN remove_condition(c1, "stabilized")
            ELSE c1

\* resources._gain_death_save
_gain_death_save(c, success, count) ==
    IF c.err # "none" THEN c
    ELSE LET c1 == IF success
                   THEN [c EXCEPT !.char_resources.death_saves.success = @ + 1]
                   ELSE [c EXCEPT !.char_resources.death_saves.fail =
                            @ + (IF count = 1 THEN 1 ELSE 2)]
         IN IF c1.char_resources.death_saves.success >= 3
            THEN add_condition(c1, "stabilized", Indefinite)
            ELSE IF c1.char_resources.death_saves.fail >= 3
            THEN add_condition(remove_condition(c1, "dying"), "death", Indefinite)
            ELSE IF c1.char_resources.death_saves.fail > 0 /\ HasCond(c1, "stabilized")
            THEN remove_condition(c1, "stabilized")
            ELSE c1

\* resources.do_death_save, death_roll being the d20 it rolls
do_death_save(c, death_roll) ==
    IF c.err # "none" THEN c
    ELSE IF ~HasCond(c, "dying") THEN Raise(c, "Exception")
    ELSE IF HasCond(c, "stabilized") THEN c
    ELSE IF death_roll = 20 THEN heal_hp(c, 1)
    ELSE IF death_roll >= 10 THEN _gain_death_save(c, TRUE, 1)
    ELSE IF death_roll = 1 THEN _gain_death_save(c, FALSE, 2)
    ELSE _gain_death_save(c, FALSE, 1)

\* the die sizes from the smallest up
LongRestFacesAscending == <<6, 8, 10, 12>>

\* the order long_rest walks the hit die sizes in: range(12, 4, -2)
LongRestFaces == <<12, 10, 8, 6>>

\* the inner for-loop of long_rest over one die size, iters iterations left:
\* <<dice of that size, replenish_count, full_break>>
RECURSIVE replenish_inner(_, _, _, _)
replenish_inner(current, ceiling, replenish_count, iters) ==
    IF iters = 0 THEN <<current, replenish_count, FALSE>>
    ELSE IF replenish_count = 0 THEN <<current, replenish_count, TRUE>>
    ELSE IF current >= ceiling THEN <<ceiling, replenish_count, FALSE>>
    ELSE replenish_inner(current + 1, ceiling, replenish_count - 1, iters - 1)

\* the outer for-loop of long_rest over the die sizes
RECURSIVE replenish_hit_dice(_, _, _, _)
replenish_hit_dice(hit_dice, ceilings, replenish_count, faces_left) ==
    IF faces_left = <<>> THEN hit_dice
    ELSE LET i_faces == Head(faces_left)
         IN IF ceilings[i_faces] <= 0
            THEN replenish_hit_dice(hit_dice, ceilings, replenish_count, Tail(faces_left))
            ELSE LET r == replenish_inner(hit_dice[i_faces], ceilings[i_faces],
                                          replenish_count, ceilings[i_faces])
                     hd == [hit_dice EXCEPT ![i_faces] = r[1]]
                 IN IF r[3] THEN hd
                    ELSE replenish_hit_dice(hd, ceilings, r[2], Tail(faces_left))

Max(a, b) == IF a >= b THEN a ELSE b

Min(a, b) == IF a <= b THEN a ELSE b

\* resources.restore_all_slots
restore_all_slots(c) == [c EXCEPT !.char_resources.spell_slots = c.char_stats.slots]

\* a class the character has levels in
HasClass(c, class) == class \in DOMAIN c.char_stats.class_level

\* the cleric's channel divinity uses at a class level
ChannelDivinity(level) == IF level >= 18 THEN 3 ELSE IF level >= 6 THEN 2 ELSE 1

\* the fighter's action surges at a class level, current being what it has below level 2
ActionSurge(level, current) == IF level >= 2 THEN (IF level >= 17 THEN 2 ELSE 1) ELSE current

\* the loop of long_rest over class_level (the classes touch different
\* counters, and restore_all_slots done twice is restore_all_slots)
long_rest_class_features(c) ==
    LET cl == c.char_stats.class_level
        c1 == IF \E class \in {"bard", "cleric", "druid", "warlock"} : HasClass(c, class)
              THEN restore_all_slots(c) ELSE c
    IN [c1 EXCEPT
          !.char_resources.bardic_insp =
              IF HasClass(c, "bard") THEN Max(1, get_mod(c, "cha")) ELSE @,
          !.char_resources.channel_div =
              IF HasClass(c, "cleric") THEN ChannelDivinity(cl["cleric"]) ELSE @,
          !.char_resources.wild_shape = IF HasClass(c, "druid") THEN 2 ELSE @,
          !.char_resources.second_wind = IF HasClass(c, "fighter") THEN 1 ELSE @,
          !.char_resources.action_surge =
              IF HasClass(c, "fighter") THEN ActionSurge(cl["fighter"], @) ELSE @]

\* the loop of long_rest over miscellaneous
long_rest_miscellaneous(c) ==
    [c EXCEPT !.char_resources.miscellaneous =
        [i_k \in DOMAIN @ |->
            IF i_k = "psionic_dice_regain" THEN 1
            ELSE IF i_k = "psionic_energy" THEN 2 * c.char_stats.prof
            ELSE IF i_k = "warding_flare" THEN Min(1, get_mod(c, "wis"))
            ELSE @[i_k]]]

\* resources.long_rest
long_rest(c) ==
    IF c.err # "none" THEN c
    ELSE IF c.char_resources.hp = 0 THEN c
    ELSE IF HasCond(c, "death") THEN c
    ELSE LET c1 == heal_hp(c, -1)
             c2 == IF c1.err # "none" \/ c1.char_stats.tot_hd = 0 THEN c1
                   ELSE [c1 EXCEPT !.char_resources.hit_dice =
                            replenish_hit_dice(@, c1.char_stats.hit_dice,
                                               Max(c1.char_stats.tot_hd \div 2, 1), LongRestFaces)]
         IN IF c2.err # "none" THEN c2
            ELSE long_rest_miscellaneous(long_rest_class_features(c2))

\* roll._parse_d of a '<count>d<faces>' string: (faces, count, modifier)
_parse_d(d_str) == <<d_str.faces, d_str.count, d_str.mod>>

\* the for-loop of short_rest over range(count) for one dice string; s holds
\* hit_dice, heal_total and the rolls still to come
RECURSIVE spend_dice_of_size(_, _, _, _)
spend_dice_of_size(s, faces, iters, con_mod) ==
    IF iters = 0 THEN s
    ELSE IF s.hit_dice[faces] = 0 THEN s
    ELSE spend_dice_of_size(
             [hit_dice |-> [s.hit_dice EXCEPT ![faces] = @ - 1],
              heal_total |-> s.heal_total + Head(s.rolls) + con_mod,
              rolls |-> Tail(s.rolls)],
             faces, iters - 1, con_mod)

\* the for-loop of short_rest over spend_dice
RECURSIVE spend_all_dice(_, _, _)
spend_all_dice(s, spend_dice, con_mod) ==
    IF spend_dice = <<>> THEN s
    ELSE LET parse_tuple == _parse_d(Head(spend_dice))
         IN IF parse_tuple[1] \notin DOMAIN s.hit_dice
            THEN spend_all_dice(s, Tail(spend_dice), con_mod)
            ELSE spend_all_dice(spend_dice_of_size(s, parse_tuple[1], parse_tuple[2], con_mod),
                                Tail(spend_dice), con_mod)

\* the loop of short_rest over class_level
short_rest_class_features(c) ==
    LET cl == c.char_stats.class_level
        c1 == IF HasClass(c, "warlock") THEN restore_all_slots(c) ELSE c
    IN [c1 EXCEPT
          !.char_resources.channel_div =
              IF HasClass(c, "cleric") THEN ChannelDivinity(cl["cleric"]) ELSE @,
          !.char_resources.wild_shape = IF HasClass(c, "druid") THEN 2 ELSE @,
          !.char_resources.second_wind = IF HasClass(c, "fighter") THEN 1 ELSE @,
          !.char_resources.action_surge =
              IF HasClass(c, "fighter") THEN ActionSurge(cl["fighter"], @) ELSE @]

\* the loop of short_rest over miscellaneous
short_rest_miscellaneous(c) ==
    [c EXCEPT !.char_resources.miscellaneous =
        [i_k \in DOMAIN @ |-> IF i_k = "psionic_dice_regain" THEN 1 ELSE @[i_k]]]

\* resources.short_rest, rolls being the hit die rolls in the order they are made
short_rest(c, spend_dice, rolls) ==
    IF c.err # "none" THEN c
    ELSE IF c.char_resources.hp = 0 THEN c
    ELSE LET s == spend_all_dice([hit_dice |-> c.char_resources.hit_dice, heal_total |-> 0,
                                  rolls |-> rolls], spend_dice, get_mod(c, "con"))
             c1 == IF spend_dice = <<>> THEN c
                   ELSE heal_hp([c EXCEPT !.char_resources.hit_dice = s.hit_dice], s.heal_total)
         IN IF c1.err # "none" THEN c1
            ELSE short_rest_miscellaneous(short_rest_class_features(c1))

\* ------------------------------------------------------------ character
\* the adjusted damage take_damage sums over the entries of the damage dict
RECURSIVE total_damage(_, _)
total_damage(c, damage) ==
    IF damage = <<>> THEN 0
    ELSE LET i_type == Head(damage).type
             i_value == Head(damage).value
             petrified == IF HasCond(c, "petrified") THEN i_value \div 2 ELSE 0
             own == IF i_type \in c.char_stats.imm THEN 0
                    ELSE IF i_type \in c.char_stats.res THEN i_value \div 2
                    ELSE IF i_type \in c.char_stats.vul THEN i_value * 2
                    ELSE i_value
         IN petrified + own + total_damage(c, Tail(damage))

\* combatCharacter.take_damage: on a dying character the call
\* self.char_resources._gain_death_save(self, False, ...) hands the bound
\* method one positional argument too many, which raises TypeError before
\* _gain_death_save runs
take_damage(c, damage, was_crit) ==
    IF c.err # "none" THEN c
    ELSE IF HasCond(c, "dying") THEN Raise(c, "TypeError")
    ELSE remove_hp(c, total_damage(c, damage))

\* a start of turn that leaves the reaction as it is
start_turn_keeps_reaction(c) ==
    IF c.err # "none" THEN c
    ELSE check_all_conditions(
             [c EXCEPT !.char_resources.regular_action = 1,
                       !.char_resources.bonus_action = 1,
                       !.char_resources.movement = c.char_stats.speed],
             Timed(1, "sont"))

\* combatCharacter.start_turn: the counters are set, then the conditions are
\* checked against '1 sont'
start_turn(c) ==
    IF c.err # "none" THEN c
    ELSE check_all_conditions(
             [c EXCEPT !.char_resources.regular_action = 1,
                       !.char_resources.bonus_action = 1,
                       !.char_resources.reaction = 1,
                       !.char_resources.movement = c.char_stats.speed,
                       !.char_resources.sneak_attack =
                           IF "rogue" \in DOMAIN c.char_stats.class_level THEN 1 ELSE @,
                       !.char_resources.miscellaneous =
                           [k \in DOMAIN @ |-> IF k = "genies_wrath" THEN 1 ELSE @[k]]],
             Timed(1, "sont"))

\* combatCharacter.end_turn
end_turn(c) == check_all_conditions(c, Timed(1, "eont"))

\* action._do_auto, self._name == 'dodge'
do_auto_dodge(c) == add_condition(c, "dodge", Timed(1, "sont"))

\* action._do_special, self._name == 'stabilize', c being the single target
do_special_stabilize(c) == add_condition(c, "stabilized", Indefinite)

\* -------------------------------------------------- resources and spells
\* the sizes add_resource accepts for a hit die: range(2, 14, 2)
ValidFaces == {2, 4, 6, 8, 10, 12}


\* the loop of add_resource over in_dict['hit_dice'], a list of <<faces, count>>
\* in the order of the dict; a size the character has no entry for is a KeyError
RECURSIVE add_hit_dice(_, _)
add_hit_dice(c, items) ==
    IF items = <<>> \/ c.err # "none" THEN c
    ELSE LET i_faces == Head(items)[1]
             i_count == Head(items)[2]
         IN IF i_faces \notin ValidFaces THEN add_hit_dice(c, Tail(items))
            ELSE IF i_faces \notin DOMAIN c.char_stats.hit_dice THEN Raise(c, "KeyError")
            ELSE add_hit_dice(
                     [c EXCEPT !.char_resources.hit_dice[i_faces] =
                         Max(0, Min(c.char_stats.hit_dice[i_faces], @ + i_count))],
                     Tail(items))

\* the loop of add_resource over in_dict['slots'], a list of <<level, count>>
RECURSIVE add_slots(_, _)
add_slots(c, items) ==
    IF items = <<>> THEN c
    ELSE LET i_level == Head(items)[1]
             i_count == Head(items)[2]
         IN IF i_level \notin SlotLevels THEN add_slots(c, Tail(items))
            ELSE add_slots(
                     [c EXCEPT !.char_resources.spell_slots[i_level] =
                         Max(0, Min(c.char_stats.slots[i_level], @ + i_count))],
                     Tail(items))

\* resources.add_resource, in_dict a record with some of the keys temp_hp,
\* regular, bonus, reaction, movement, hit_dice and slots
add_resource(c, in_dict) ==
    IF c.err # "none" THEN c
    ELSE LET has(k) == k \in DOMAIN in_dict
             c1 == [c EXCEPT
                      !.char_resources.temp_hp =
                          IF has("temp_hp") THEN @ + in_dict["temp_hp"] ELSE @,
                      !.char_resources.regular_action =
                          IF has("regular") THEN Max(0, @ + in_dict["regular"]) ELSE @,
                      !.char_resources.bonus_action =
                          IF has("bonus") THEN Max(0, @ + in_dict["bonus"]) ELSE @,
                      !.char_resources.reaction =
                          IF has("reaction") THEN Max(0, @ + in_dict["reaction"]) ELSE @,
                      !.char_resources.movement =
                          IF has("movement") /\ ~HasCond(c, "grappled")
                          THEN Max(0, @ + in_dict["movement"]) ELSE @]
             c2 == IF has("hit_dice") THEN add_hit_dice(c1, in_dict["hit_dice"]) ELSE c1
         IN IF c2.err # "none" \/ ~has("slots") THEN c2
            ELSE add_slots(c2, in_dict["slots"])

\* the loop of get_next_available_slot, i counting down from 9
RECURSIVE next_slot_from(_, _, _)
next_slot_from(spell_slots, min_level, i) ==
    IF i = 0 THEN 0
    ELSE IF i < min_level THEN 0
    ELSE IF spell_slots[i] > 0 THEN i
    ELSE next_slot_from(spell_slots, min_level, i - 1)

\* resources.get_next_available_slot, for min_level in 1..9
get_next_available_slot(c, min_level) ==
    next_slot_from(c.char_resources.spell_slots, min_level, 9)

\* spell._cantrip: shillelagh puts its condition on the caster
_cantrip(c, in_spell) ==
    IF in_spell.name = "shillelagh"
    THEN [add_condition(c, "shillelagh", in_spell.duration)
             EXCEPT !.ret = <<"has shillelagh on their club/quarterstaff">>]
    ELSE Raise(c, "Exception")

\* spell.do_spell: the slot is spent, then the spell's level handler runs;
\* the handlers _first .. _ninth hold no spell and raise
do_spell(c, in_spell, upcast) ==
    IF c.err # "none" THEN c
    ELSE IF upcast \notin 0..9 THEN Raise(c, "ValueError")
    ELSE IF in_spell.level = 0 THEN _cantrip(c, in_spell)
    ELSE IF upcast - in_spell.level > 0
    THEN Raise([c EXCEPT !.char_resources.spell_slots[upcast] = @ - 1], "Exception")
    ELSE Raise([c EXCEPT !.char_resources.spell_slots[in_spell.level] = @ - 1], "Exception")

\* a cast that does not look for a slot first
_do_spell_unchecked(c, in_spell, additional) ==
    IF c.err # "none" THEN c
    ELSE IF in_spell.level > 0
    THEN LET next_slot == get_next_available_slot(c, in_spell.level)
             upcast == IF "upcast" \in DOMAIN additional THEN additional["upcast"] ELSE 0
         IN do_spell(c, in_spell, Max(next_slot, upcast))
    ELSE do_spell(c, in_spell, 0)

\* action._do_spell, additional holding the key upcast or nothing
_do_spell(c, in_spell, additional) ==
    IF c.err # "none" THEN c
    ELSE IF in_spell.level > 0
    THEN LET next_slot == get_next_available_slot(c, in_spell.level)
             upcast == IF "upcast" \in DOMAIN additional THEN additional["upcast"] ELSE 0
         IN IF next_slot = 0 THEN c
            ELSE do_spell(c, in_spell, Max(next_slot, upcast))
    ELSE do_spell(c, in_spell, 0)

\* ------------------------------------------------------------------ Init
\* the hit dice of the modelled character: 1d8
HitDiceSome == [f \in HitDieFaces |-> IF f = 8 THEN 1 ELSE 0]

SumHitDice(hd) == hd[6] + hd[8] + hd[10] + hd[12]

\* stats.__init__ followed by set_stats of max_hp, hit_dice and property (a
\* dict, here a function from its keys)
stats_init(max_hp, hit_dice, property) ==
    [max_hp |-> max_hp, speed |-> 30, ac |-> 10, prof |-> 0, tools |-> {},
     str |-> 10, dex |-> 10, con |-> 10, int |-> 10, wis |-> 10, cha |-> 10,
     hit_dice |-> hit_dice, tot_hd |-> SumHitDice(hit_dice),
     imm |-> {}, res |-> {}, vul |-> {}, property |-> property,
     slots |-> [i \in SlotLevels |-> 0], class_level |-> [class \in {} |-> 0]]

\* resources.__init__
resources_init(stats) ==
    [hp |-> stats.max_hp, temp_hp |-> 0, regular_action |-> 1, bonus_action |-> 1,
     movement |-> stats.speed, reaction |-> 1, hit_dice |-> stats.hit_dice,
     spell_slots |-> stats.slots,
     death_saves |-> [success |-> 0, fail |-> 0],
     bardic_insp |-> 0, channel_div |-> 0, wild_shape |-> 0, second_wind |-> 0,
     action_surge |-> 0, sneak_attack |-> 0, miscellaneous |-> <<>>]

NoOp == [op |-> "init", amount |-> 0, was_crit |-> FALSE, roll |-> 0,
         pre_hp |-> 0, pre_saves |-> [success |-> 0, fail |-> 0], pre_conds |-> {}]

Init ==
    /\ party = <<>>
    /\ _cache = <<>>
    /\ team \in Teams
    /\ \E property \in {<<>>, [important |-> TRUE]} :
            char_stats = stats_init(MaxHpBound, HitDiceSome, property)
    /\ char_resources = resources_init(char_stats)
    /\ char_conditions = <<>>
    /\ err = "none"
    /\ last = NoOp

\* --------------------------------------------------------------- actions
\* the state after a handler returned or raised, with the call and the state
\* it was made in remembered in last
Commit(c, op, amount, was_crit, roll) ==
    /\ team' = c.team
    /\ char_stats' = c.char_stats
    /\ char_resources' = c.char_resources
    /\ char_conditions' = c.char_conditions
    /\ err' = c.err
    /\ party' = party
    /\ _cache' = _cache
    /\ last' = [op |-> op, amount |-> amount, was_crit |-> was_crit, roll |-> roll,
                pre_hp |-> char_resources.hp,
                pre_saves |-> char_resources.death_saves,
                pre_conds |-> CondNames(char_conditions)]

Slashing(v) == <<[type |-> "slashing", value |-> v]>>

\* was_crit is read only on the dying branch of take_damage, so critical hits
\* are tried on dying characters only
TakeDamage ==
    /\ err = "none"
    /\ \E v \in 0..(2 * char_stats.max_hp),
          was_crit \in (IF HasCond(Self, "dying") THEN BOOLEAN ELSE {FALSE}) :
          Commit(take_damage(Self, Slashing(v), was_crit), "take_damage",
                 total_damage(Self, Slashing(v)), was_crit, 0)

HealHp ==
    /\ err = "none"
    /\ \E amount \in (-1)..char_stats.max_hp :
          Commit(heal_hp(Self, amount), "heal_hp", amount, FALSE, 0)

\* the d20 is rolled only once do_death_save is past its two checks; roll = 0
\* stands for no roll made
DoDeathSave ==
    /\ err = "none"
    /\ IF HasCond(Self, "dying") /\ ~HasCond(Self, "stabilized")
       THEN \E death_roll \in 1..20 :
               Commit(do_death_save(Self, death_roll), "do_death_save", 0, FALSE, death_roll)
       ELSE Commit(do_death_save(Self, 0), "do_death_save", 0, FALSE, 0)

Stabilize ==
    /\ err = "none"
    /\ Commit(do_special_stabilize(Self), "stabilize", 0, FALSE, 0)

Dodge ==
    /\ err = "none"
    /\ \A i \in DOMAIN char_conditions :
          char_conditions[i].name = "dodge"
              => FloatLt(char_conditions[i].remaining, FloatOfInt(MaxDodgeTurns))
    /\ Commit(do_auto_dodge(Self), "dodge", 0, FALSE, 0)

LongRest ==
    /\ err = "none"
    /\ Commit(long_rest(Self), "long_rest", 0, FALSE, 0)

Die(count, faces) == [count |-> count, faces |-> faces, mod |-> 0]

\* the spend_dice lists tried: none, more d8 than the pool holds, one of each
\* pool size, and a size no character has
SpendChoices == {<<>>, <<Die(2, 8)>>, <<Die(1, 8), Die(1, 10)>>, <<Die(1, 4)>>}

\* the number of dice a spend_dice list asks for
RECURSIVE Requested(_)
Requested(spend_dice) ==
    IF spend_dice = <<>> THEN 0 ELSE Head(spend_dice).count + Requested(Tail(spend_dice))

\* each hit die spent rolls 1 or 6 (both can come up on every die size)
ShortRest ==
    /\ err = "none"
    /\ \E spend_dice \in SpendChoices :
          \E rolls \in [1..Requested(spend_dice) -> {1, 6}] :
              Commit(short_rest(Self, spend_dice, rolls), "short_rest", 0, FALSE, 0)

StartTurn ==
    /\ err = "none"
    /\ Commit(start_turn(Self), "start_turn", 0, FALSE, 0)

EndTurn ==
    /\ err = "none"
    /\ Commit(end_turn(Self), "end_turn", 0, FALSE, 0)

Next ==
    \/ TakeDamage
    \/ HealHp
    \/ DoDeathSave
    \/ Stabilize
    \/ Dodge
    \/ LongRest
    \/ ShortRest
    \/ StartTurn
    \/ EndTurn

Spec == Init /\ [][Next]_vars

\* ------------------------------------------- the resource pool of a caster
\* the caster's hit dice, 1d8 and 1d10, and spell slots, two of level 1 and
\* one of level 2
HitDiceCaster == [f \in HitDieFaces |-> IF f \in {8, 10} THEN 1 ELSE 0]

SlotsCaster == [i \in SlotLevels |-> IF i = 1 THEN 2 ELSE IF i = 2 THEN 1 ELSE 0]

ClassLevels ==
    {[class \in {} |-> 0], [class \in {"cleric"} |-> 1], [class \in {"warlock"} |-> 1],
     [class \in {"wizard"} |-> 3]}

\* stats.set_stats of slots and class_level
set_stats_caster(stats, slots, class_level) ==
    [stats EXCEPT !.slots = slots, !.class_level = class_level]

\* no call made yet
NoCall == [op |-> "init", arg |-> <<>>, ret |-> 0, pre_slots |-> SlotsCaster]

InitResources ==
    /\ party = <<>>
    /\ _cache = <<>>
    /\ team = "pc"
    /\ \E class_level \in ClassLevels :
          char_stats = set_stats_caster(stats_init(MaxHpBound, HitDiceCaster, <<>>),
                                        SlotsCaster, class_level)
    /\ char_resources = resources_init(char_stats)
    /\ char_conditions = <<>>
    /\ err = "none"
    /\ last = NoCall

\* the state a call on the caster leaves, with the call, what it returned and
\* the slots it found
CommitCall(c, op, arg, ret) ==
    /\ team' = c.team
    /\ char_stats' = c.char_stats
    /\ char_resources' = c.char_resources
    /\ char_conditions' = c.char_conditions
    /\ err' = c.err
    /\ party' = party
    /\ _cache' = _cache
    /\ last' = [op |-> op, arg |-> arg, ret |-> ret,
                pre_slots |-> char_resources.spell_slots]

\* the in_dict arguments tried: slots and hit dice gained and lost, singly
\* and together, keys add_resource skips or has no entry for, and an action spent
ResourceDicts ==
    {[slots |-> <<<<l, n>>>>] : l \in {1, 2, 3, 10}, n \in {-3, -1, 1, 3}}
    \cup {[hit_dice |-> <<<<f, n>>>>] : f \in {3, 4, 8, 10}, n \in {-2, -1, 1, 2}}
    \cup {[hit_dice |-> <<<<8, -1>>, <<10, 2>>>>, slots |-> <<<<1, -1>>, <<2, 2>>>>],
          [regular |-> -1, temp_hp |-> 1]}

AddResource ==
    /\ err = "none"
    /\ \E in_dict \in ResourceDicts :
          /\ "temp_hp" \in DOMAIN in_dict => char_resources.temp_hp < MaxTempHp
          /\ CommitCall(add_resource(Self, in_dict), "add_resource", in_dict, 0)

GetNextAvailableSlot ==
    /\ err = "none"
    /\ \E min_level \in SlotLevels :
          CommitCall(Self, "get_next_available_slot", min_level,
                     get_next_available_slot(Self, min_level))

\* the spells cast: the cantrip shillelagh (by a caster that does not have it
\* running) and a spell of each of the levels 1 to 3
Spells ==
    {[name |-> "shillelagh", level |-> 0, duration |-> Timed(1, "minute")]}
    \cup {[name |-> "spell", level |-> l, duration |-> Indefinite] : l \in 1..3}

\* the additional arguments of a cast: no upcast request, or one for a level
Additionals == {[k \in {} |-> 0]} \cup {[upcast |-> u] : u \in 1..4}

CastSpell ==
    /\ err = "none"
    /\ \E in_spell \in Spells, additional \in Additionals :
          /\ in_spell.name = "shillelagh" => ~HasCond(Self, "shillelagh")
          /\ CommitCall(_do_spell(Self, in_spell, additional), "_do_spell",
                     <<in_spell, additional>>, _do_spell(Self, in_spell, additional).ret)

NextResources ==
    \/ AddResource
    \/ GetNextAvailableSlot
    \/ CastSpell
    \/ ShortRest
    \/ LongRest

SpecResources == InitResources /\ [][NextResources]_vars

\* ------------------------------------------------- the condition registry
\* One character's registry driven directly through add_condition,
\* remove_condition and check_all_conditions.
ConditionNames == {"dying", "unconscious", "paralyzed", "petrified", "stunned",
                   "incapacitated", "prone", "dodge", "grappled"}

\* the duration arguments tried
Durations == {Indefinite, Timed(1, "round")}

\* the time_passed arguments tried
TimesPassed == {Timed(1, "round")}

\* no call made yet
NoCondCall == [op |-> "init", name |-> "", duration |-> Indefinite, pre |-> <<>>,
               pre_conds |-> {}, pre_stats |-> stats_init(MaxHpBound, HitDiceSome, <<>>),
               pre_resources |-> resources_init(stats_init(MaxHpBound, HitDiceSome, <<>>)),
               events |-> <<>>, max_depth |-> 0]

InitConditions ==
    /\ party = <<>>
    /\ _cache = <<>>
    /\ team = "pc"
    /\ char_stats = stats_init(MaxHpBound, HitDiceSome, <<>>)
    /\ char_resources = resources_init(char_stats)
    /\ char_conditions = <<>>
    /\ err = "none"
    /\ last = NoCondCall

\* the state a registry call leaves, with the call, the state it was made in
\* and the trace of what it did
CommitCond(c, op, name, duration) ==
    /\ team' = c.team
    /\ char_stats' = c.char_stats
    /\ char_resources' = c.char_resources
    /\ char_conditions' = c.char_conditions
    /\ err' = c.err
    /\ party' = party
    /\ _cache' = _cache
    /\ last' = [op |-> op, name |-> name, duration |-> duration, pre |-> char_conditions,
                pre_conds |-> CondNames(char_conditions), pre_stats |-> char_stats,
                pre_resources |-> char_resources,
                events |-> c.events, max_depth |-> c.max_depth]

AddCondition ==
    /\ err = "none"
    /\ Len(char_conditions) < MaxHeld
    /\ \E name \in ConditionNames, duration \in Durations :
          /\ \A i \in DOMAIN char_conditions :
                char_conditions[i].name = name
                  => ~FloatLt(FloatOfInt(MaxRemaining), char_conditions[i].remaining)
          /\ CommitCond(add_condition(Self, name, duration), "add_condition", name, duration)

RemoveCondition ==
    /\ err = "none"
    /\ \E name \in ConditionNames :
          CommitCond(remove_condition(Self, name), "remove_condition", name, Indefinite)

CheckAllConditions ==
    /\ err = "none"
    /\ \E time_passed \in TimesPassed :
          CommitCond(check_all_conditions(Self, time_passed), "check_all_conditions", "",
                     time_passed)

NextConditions ==
    \/ AddCondition
    \/ RemoveCondition
    \/ CheckAllConditions

SpecConditions == InitConditions /\ [][NextConditions]_vars

\* ------------------------------------- several incapacitating conditions
\* A character that dodges, is stunned and is paralyzed, for a round or until
\* the condition is removed, and loses these again by removal or as rounds pass.
SeveralConditions == {"dodge", "stunned", "paralyzed"}

GainOfSeveral ==
    /\ err = "none"
    /\ \E name \in SeveralConditions, duration \in Durations :
          /\ ~HasCond(Self, name)
          /\ CommitCond(add_condition(Self, name, duration), "add_condition", name, duration)

LoseOfSeveral ==
    /\ err = "none"
    /\ \E name \in SeveralConditions :
          /\ HasCond(Self, name)
          /\ CommitCond(remove_condition(Self, name), "remove_condition", name, Indefinite)

RoundPasses ==
    /\ err = "none"
    /\ CommitCond(check_all_conditions(Self, Timed(1, "round")), "check_all_conditions", "",
                  Timed(1, "round"))

NextSeveral ==
    \/ GainOfSeveral
    \/ LoseOfSeveral
    \/ RoundPasses

SpecSeveral == InitConditions /\ [][NextSeveral]_vars

\* ------------------------------------------------------ cascade chains
\* One add_condition or remove_condition call made on a character with any
\* starting registry. A registry is a dict keyed by name, so the cascades do
\* not depend on the order of its entries; grappled is only held after its
\* gain hook has stored the speed, and is left to the calls.
NameOrder == <<"dying", "unconscious", "paralyzed", "petrified", "stunned",
               "incapacitated", "prone", "dodge">>

\* the registry holding the names of held, each with the given duration
Registry(held, duration) ==
    LET names == SelectSeq(NameOrder, LAMBDA n : n \in held)
    IN [i \in DOMAIN names |-> condition_init(names[i], duration)]

InitCascade ==
    /\ party = <<>>
    /\ _cache = <<>>
    /\ team = "pc"
    /\ char_stats = stats_init(MaxHpBound, HitDiceSome, <<>>)
    /\ char_resources = resources_init(char_stats)
    /\ \E held \in SUBSET (ConditionNames \ {"grappled"}), duration \in Durations :
          char_conditions = Registry(held, duration)
    /\ err = "none"
    /\ last = NoCondCall

CascadeAdd ==
    /\ last.op = "init"
    /\ \E name \in ConditionNames, duration \in Durations :
          CommitCond(add_condition(Self, name, duration), "add_condition", name, duration)

CascadeRemove ==
    /\ last.op = "init"
    /\ \E name \in ConditionNames :
          CommitCond(remove_condition(Self, name), "remove_condition", name, Indefinite)

NextCascade ==
    \/ CascadeAdd
    \/ CascadeRemove

SpecCascade == InitCascade /\ [][NextCascade]_vars

\* ------------------------------------------------- a condition's clock
\* One timed condition and the check_condition calls made on it until it has
\* ended. Next to the float the program keeps, the history holds the exact
\* times in seconds: the duration the condition was given, and the sum of
\* the time_passed that counts for it.
\* time_passed in unit counts for a condition in cond_unit: sont and eont
\* conditions do not lose time with other units than minute, hour and day
Counts(cond_unit, unit) ==
    \/ cond_unit = unit
    \/ cond_unit \notin {"sont", "eont"}
    \/ unit \in {"minute", "hour", "day"}

\* no call made yet on a condition given duration
NoCheck(duration) ==
    [op |-> "init", time_passed |-> duration, pre |-> condition_init("poisoned", duration),
     given |-> duration.amount * TIME_UNITS[duration.unit], elapsed |-> 0, advances |-> 0]

InitClock ==
    /\ party = <<>>
    /\ _cache = <<>>
    /\ team = "pc"
    /\ char_stats = stats_init(MaxHpBound, HitDiceSome, <<>>)
    /\ char_resources = resources_init(char_stats)
    /\ \E amount \in 1..MaxDuration, unit \in ValidUnits :
          /\ char_conditions = <<condition_init("poisoned", Timed(amount, unit))>>
          /\ last = NoCheck(Timed(amount, unit))
    /\ err = "none"

\* i_condition.check_condition(time_passed) on the condition, still valid
CheckCondition ==
    /\ err = "none"
    /\ char_conditions[1].valid
    /\ last.advances < MaxAdvances
    /\ \E amount \in 1..MaxElapsed, unit \in ValidUnits :
          /\ char_conditions' = <<check_condition(char_conditions[1], Timed(amount, unit))>>
          /\ last' = [op |-> "check_condition", time_passed |-> Timed(amount, unit),
                      pre |-> char_conditions[1], given |-> last.given,
                      elapsed |-> IF Counts(char_conditions[1].unit, unit)
                                  THEN last.elapsed + amount * TIME_UNITS[unit]
                                  ELSE last.elapsed,
                      advances |-> last.advances + 1]
    /\ UNCHANGED <<team, char_stats, char_resources, err, party, _cache>>

NextClock == CheckCondition

SpecClock == InitClock /\ [][NextClock]_vars

\* ------------------------------------------- extending a held condition
\* One timed condition, and add_condition calls for its name, which extend it
\* through add_time.
InitExtend ==
    /\ party = <<>>
    /\ _cache = <<>>
    /\ team = "pc"
    /\ char_stats = stats_init(MaxHpBound, HitDiceSome, <<>>)
    /\ char_resources = resources_init(char_stats)
    /\ \E amount \in 1..MaxDuration, unit \in ValidUnits :
          /\ char_conditions = <<condition_init("poisoned", Timed(amount, unit))>>
          /\ last = NoCheck(Timed(amount, unit))
    /\ err = "none"

\* add_condition('poisoned', duration) on the character that holds poisoned
ExtendCondition ==
    /\ err = "none"
    /\ last.advances < MaxAdvances
    /\ \E amount \in 1..MaxElapsed, unit \in ValidUnits :
          LET c == add_condition(Self, "poisoned", Timed(amount, unit))
          IN /\ char_conditions' = c.char_conditions
             /\ err' = c.err
             /\ last' = [op |-> "add_time", time_passed |-> Timed(amount, unit),
                         pre |-> char_conditions[1], given |-> last.given,
                         elapsed |-> last.elapsed, advances |-> last.advances + 1]
    /\ UNCHANGED <<team, char_stats, char_resources, party, _cache>>

NextExtend == ExtendCondition

SpecExtend == InitExtend /\ [][NextExtend]_vars

\* ------------------------------------------------ conditions on speed
\* A character with some speed that gains and loses grappled and restrained.
\* The history remembers in gained the condition that was gained while the
\* character had neither, with the speed the character had then.
SpeedConditions == {"grappled", "restrained"}

Speeds == {25, 30}

NoneGained == [name |-> "", speed |-> 0]

InitSpeed ==
    /\ party = <<>>
    /\ _cache = <<>>
    /\ team = "pc"
    /\ \E speed \in Speeds :
          char_stats = [stats_init(MaxHpBound, HitDiceSome, <<>>) EXCEPT !.speed = speed]
    /\ char_resources = resources_init(char_stats)
    /\ char_conditions = <<>>
    /\ err = "none"
    /\ last = [op |-> "init", name |-> "", duration |-> Indefinite, pre_conds |-> {},
               gained |-> NoneGained]

\* the state a call leaves and the history of the condition gained first
CommitSpeed(c, op, name, duration) ==
    /\ team' = c.team
    /\ char_stats' = c.char_stats
    /\ char_resources' = c.char_resources
    /\ char_conditions' = c.char_conditions
    /\ err' = c.err
    /\ party' = party
    /\ _cache' = _cache
    /\ last' = [op |-> op, name |-> name, duration |-> duration,
                pre_conds |-> CondNames(char_conditions),
                gained |-> IF op = "add_condition" /\ CondNames(char_conditions) = {}
                           THEN [name |-> name, speed |-> char_stats.speed]
                           ELSE IF last.gained.name \notin CondNames(c.char_conditions)
                           THEN NoneGained
                           ELSE last.gained]

GainSpeedCondition ==
    /\ err = "none"
    /\ \E name \in SpeedConditions, duration \in Durations :
          /\ \A i \in DOMAIN char_conditions :
                char_conditions[i].name = name
                  => ~FloatLt(FloatOfInt(MaxRemaining), char_conditions[i].remaining)
          /\ CommitSpeed(add_condition(Self, name, duration), "add_condition", name, duration)

LoseSpeedCondition ==
    /\ err = "none"
    /\ \E name \in SpeedConditions :
          CommitSpeed(remove_condition(Self, name), "remove_condition", name, Indefinite)

\* movement spent in between
SpendMovement ==
    /\ err = "none"
    /\ char_resources.movement > 0
    /\ CommitSpeed(add_resource(Self, [movement |-> -5]), "add_resource", "", Indefinite)

NextSpeed ==
    \/ GainSpeedCondition
    \/ LoseSpeedCondition
    \/ SpendMovement

SpecSpeed == InitSpeed /\ [][NextSpeed]_vars

\* ------------------------------------------- grappled and restrained in turns
\* A character with some speed gains and loses grappled and restrained, each
\* for two starts of turn or for a round, starts turns and spends or regains
\* movement. The history remembers in base the speed the character had when it
\* last held neither.
GrappleDurations == {Timed(2, "sont"), Timed(1, "round")}

InitGrapple ==
    /\ party = <<>>
    /\ _cache = <<>>
    /\ team = "pc"
    /\ \E speed \in Speeds :
          char_stats = [stats_init(MaxHpBound, HitDiceSome, <<>>) EXCEPT !.speed = speed]
    /\ char_resources = resources_init(char_stats)
    /\ char_conditions = <<>>
    /\ err = "none"
    /\ last = [op |-> "init", name |-> "", pre_conds |-> {}, base |-> char_stats.speed]

CommitGrapple(c, op, name) ==
    /\ team' = c.team
    /\ char_stats' = c.char_stats
    /\ char_resources' = c.char_resources
    /\ char_conditions' = c.char_conditions
    /\ err' = c.err
    /\ party' = party
    /\ _cache' = _cache
    /\ last' = [op |-> op, name |-> name, pre_conds |-> CondNames(char_conditions),
                base |-> IF CondNames(char_conditions) \cap SpeedConditions = {}
                         THEN char_stats.speed ELSE last.base]

GainGrapple ==
    /\ err = "none"
    /\ \E name \in SpeedConditions, duration \in GrappleDurations :
          /\ ~HasCond(Self, name)
          /\ CommitGrapple(add_condition(Self, name, duration), "add_condition", name)

LoseGrapple ==
    /\ err = "none"
    /\ \E name \in SpeedConditions :
          /\ HasCond(Self, name)
          /\ CommitGrapple(remove_condition(Self, name), "remove_condition", name)

GrappleTurnStarts ==
    /\ err = "none"
    /\ CommitGrapple(start_turn(Self), "start_turn", "")

\* add_resource({'movement': 5}) and add_resource({'movement': -5})
ChangeMovement ==
    /\ err = "none"
    /\ \E feet \in {-5, 5} :
          /\ char_resources.movement + feet >= 0
          /\ char_resources.movement + feet <= last.base
          /\ CommitGrapple(add_resource(Self, [movement |-> feet]), "add_resource", "")

NextGrapple ==
    \/ GainGrapple
    \/ LoseGrapple
    \/ GrappleTurnStarts
    \/ ChangeMovement

SpecGrapple == InitGrapple /\ [][NextGrapple]_vars

\* ------------------------------------------------------ the start of a turn
\* A character that gains conditions and spends or gains actions, reaction
\* and movement between the starts of its turns.
TurnConditions == {"grappled", "restrained", "dodge", "stunned"}

TurnDurations == {Indefinite, Timed(1, "sont"), Timed(1, "round")}

\* the in_dict arguments of add_resource in between
TurnResources ==
    {[regular |-> -1], [regular |-> 1], [bonus |-> -1], [reaction |-> -1], [movement |-> -5]}

InitTurn ==
    /\ party = <<>>
    /\ _cache = <<>>
    /\ team = "pc"
    /\ \E speed \in Speeds :
          char_stats = [stats_init(MaxHpBound, HitDiceSome, <<>>) EXCEPT !.speed = speed]
    /\ char_resources = resources_init(char_stats)
    /\ char_conditions = <<>>
    /\ err = "none"
    /\ last = [op |-> "init", pre_conds |-> {}, pre_resources |-> char_resources]

\* the state a call leaves, with the conditions and resources it found
CommitTurn(c, op) ==
    /\ team' = c.team
    /\ char_stats' = c.char_stats
    /\ char_resources' = c.char_resources
    /\ char_conditions' = c.char_conditions
    /\ err' = c.err
    /\ party' = party
    /\ _cache' = _cache
    /\ last' = [op |-> op, pre_conds |-> CondNames(char_conditions),
                pre_resources |-> char_resources]

GainTurnCondition ==
    /\ err = "none"
    /\ Len(char_conditions) < MaxHeld
    /\ \E name \in TurnConditions, duration \in TurnDurations :
          /\ ~HasCond(Self, name)
          /\ CommitTurn(add_condition(Self, name, duration), "add_condition")

SpendTurnResource ==
    /\ err = "none"
    /\ \E in_dict \in TurnResources :
          /\ "regular" \in DOMAIN in_dict => char_resources.regular_action + in_dict["regular"] <= 2
          /\ CommitTurn(add_resource(Self, in_dict), "add_resource")

TurnStarts ==
    /\ err = "none"
    /\ CommitTurn(start_turn(Self), "start_turn")

NextTurn ==
    \/ GainTurnCondition
    \/ SpendTurnResource
    \/ TurnStarts

SpecTurn == InitTurn /\ [][NextTurn]_vars

\* ---------------------------------------------------- target validation
\* the number of candidates in a target_list
MaxTargets == 2

\* the characters of an encounter, each a name and a team
Roster == {[name |-> "hero", team |-> "pc"], [name |-> "friend", team |-> "ally"],
           [name |-> "foe", team |-> "enemy"], [name |-> "fiend", team |-> "enemy"]}

TargetCategories == {"self", "ally", "enemy"}

\* the values of action.target that action.__init__ lets through: lists of
\* categories (those of up to three are tried)
DeclaredTargets ==
    {<<>>} \cup {<<first>> : first \in TargetCategories}
           \cup {<<first, second>> : first \in TargetCategories,
                                     second \in TargetCategories}
           \cup {<<first, second, third>> : first \in TargetCategories,
                                            second \in TargetCategories,
                                            third \in TargetCategories}

TargetLists == UNION {[1..n -> Roster] : n \in 0..MaxTargets}

\* the test the loop of _check_targets makes on one candidate
accepts_target(target, source, i_target) ==
    LET source_on_good == source.team \in {"pc", "ally"}
    IN IF target = <<"self">>
       THEN i_target.name = source.name
       ELSE IF target = <<"enemy">>
       THEN IF source_on_good THEN i_target.team = "enemy"
            ELSE i_target.team \in {"pc", "ally"}
       ELSE IF target = <<"ally">>
       THEN IF source_on_good
            THEN i_target.team \in {"pc", "ally"} /\ i_target.name # source.name
            ELSE i_target.team = "enemy" /\ i_target.name # source.name
       ELSE IF target = <<"self", "ally">> \/ target = <<"ally", "self">>
       THEN IF source_on_good THEN i_target.team \in {"pc", "ally"}
            ELSE i_target.team = "enemy"
       ELSE TRUE

\* action._check_targets
_check_targets(target, source, target_list) ==
    SelectSeq(target_list, LAMBDA i_target : accepts_target(target, source, i_target))

\* an action with its declared targets and the character using it, before
\* any call
NoTargetCheck(target, source) ==
    [op |-> "init", target |-> target, source |-> source, target_list |-> <<>>, ret |-> <<>>]

InitTargets ==
    /\ party = <<>>
    /\ _cache = <<>>
    /\ team = "pc"
    /\ char_stats = stats_init(MaxHpBound, HitDiceSome, <<>>)
    /\ char_resources = resources_init(char_stats)
    /\ char_conditions = <<>>
    /\ err = "none"
    /\ \E target \in DeclaredTargets, source \in Roster :
          last = NoTargetCheck(target, source)

CheckTargets ==
    /\ \E target_list \in TargetLists :
          last' = [last EXCEPT !.op = "_check_targets",
                               !.target_list = target_list,
                               !.ret = _check_targets(last.target, last.source, target_list)]
    /\ UNCHANGED <<team, char_stats, char_resources, char_conditions, err, party, _cache>>

NextTargets == CheckTargets

SpecTargets == InitTargets /\ [][NextTargets]_vars

\* ------------------------------------------- actions on other characters
\* The characters of an encounter are held by name: hero is the character of
\* the variables team .. char_conditions, the others are those of party.  A
\* running action works on w, with w.chars the characters, w.err the
\* exception raised, w.ret the dict the action returns and w.log the attack
\* rolls made, in order.

\* the number of characters in a target list
MaxListed == 2
\* the number of d20 pairs and of damage dice drawn for one action; a later
\* roll shows what an earlier one did
MaxRolls == 2
MaxDice == 2
\* the number of actions done in an encounter
MaxActions == 2

\* seq[k], counting around the end of seq
At(seq, k) == seq[((k - 1) % Len(seq)) + 1]

\* a character of party as an object with nothing raised
Member(name) ==
    [name |-> name, team |-> party[name].team, char_stats |-> party[name].char_stats,
     char_resources |-> party[name].char_resources,
     char_conditions |-> party[name].char_conditions,
     char_attacks |-> party[name].char_attacks, err |-> "none",
     events |-> <<>>, depth |-> 0, max_depth |-> 0, ret |-> <<>>]

\* the attacks the hero is built with, in the order of char_attacks
HeroAttacks == <<"club", "claws">>

Hero == [name |-> "hero", char_attacks |-> HeroAttacks] @@ Self

World ==
    [chars |-> [n \in {"hero"} \cup DOMAIN party |-> IF n = "hero" THEN Hero ELSE Member(n)],
     err |-> "none", ret |-> <<>>, log |-> <<>>, cache |-> _cache]

\* a method of character n returned or raised, leaving c
Put(w, n, c) == [w EXCEPT !.chars[n] = c, !.err = c.err]

\* rollFunctions.roll.roll_20, pair the faces the two d20 show
roll_20(adv, pair) ==
    IF adv = 0 THEN pair[1]
    ELSE IF adv > 0 THEN Max(pair[1], pair[2])
    ELSE Min(pair[1], pair[2])

\* the total of num dice, those after the first from of dice
RECURSIVE SumDice(_, _, _)
SumDice(dice, from, num) ==
    IF num = 0 THEN 0 ELSE At(dice, from + 1) + SumDice(dice, from + 1, num - 1)

\* rollFunctions.roll.roll_d: the total, and how many dice were thrown for it
roll_d(faces, num_dice, dice, from) ==
    IF faces < 1 THEN [total |-> 0, thrown |-> 0]
    ELSE IF num_dice < 1 THEN [total |-> 0, thrown |-> 0]
    ELSE IF faces = 1 THEN [total |-> num_dice, thrown |-> 0]
    ELSE [total |-> SumDice(dice, from, num_dice), thrown |-> num_dice]

\* the entry of attacks.json by name as attack.__init__ reads it; action is
\* the name of the action object that made the attack object and keeps it
Attacks ==
    [club |-> [name |-> "club", ability |-> "str", hitmod |-> 0, multi |-> 1,
               damage |-> <<[num |-> 1, fac |-> 4, mod |-> 0, abl |-> "str",
                             typ |-> "bludgeoning"]>>,
               prof |-> {"simple_melee_weapon"}, properties |-> {}, last_used |-> "",
               action |-> ""],
     claws |-> [name |-> "claws", ability |-> "str", hitmod |-> 1, multi |-> 2,
                damage |-> <<[num |-> 1, fac |-> 4, mod |-> 1, abl |-> "",
                              typ |-> "slashing"]>>,
                prof |-> {"all"}, properties |-> {}, last_used |-> "", action |-> ""],
     quarterstaff |-> [name |-> "quarterstaff", ability |-> "str", hitmod |-> 0, multi |-> 1,
                       damage |-> <<[num |-> 1, fac |-> 6, mod |-> 0, abl |-> "str",
                                     typ |-> "bludgeoning"]>>,
                       prof |-> {"simple_melee_weapon"},
                       properties |-> {"versatile", "monk_weapon"}, last_used |-> "",
                       action |-> ""],
     dagger |-> [name |-> "dagger", ability |-> "str", hitmod |-> 0, multi |-> 1,
                 damage |-> <<[num |-> 1, fac |-> 4, mod |-> 0, abl |-> "str",
                               typ |-> "piercing"]>>,
                 prof |-> {"simple_melee_weapon"},
                 properties |-> {"finesse", "light", "thrown"}, last_used |-> "",
                 action |-> ""]]

\* self._cache[in_attack] = attack_obj of the action object attack_obj.action,
\* and every later change of that attack object
Store(w, attack_obj) ==
    [w EXCEPT !.cache = (<<attack_obj.action, attack_obj.name>> :> attack_obj) @@ @]

\* attack._hit_conditions: advantage and modifier of the attack roll; a
\* bardic inspiration of the attacker is rolled (bi_roll) and used up
_hit_conditions(w, attack_obj, source, target, pass_arg, bi_roll) ==
    LET s == w.chars[source]
        src_conds == CondNames(s.char_conditions)
        tar_conds == CondNames(w.chars[target].char_conditions)
        adv == (IF src_conds \cap {"blinded", "frightened", "prone", "restrained"} # {}
                THEN -1 ELSE 0)
               + (IF "invisible" \in src_conds THEN 1 ELSE 0)
               + (IF "invisible" \in tar_conds THEN -1 ELSE 0)
               + (IF "prone" \in tar_conds
                  THEN (IF "in5ft" \in DOMAIN pass_arg THEN 1 ELSE -1) ELSE 0)
               + (IF "dodge" \in tar_conds THEN -1 ELSE 0)
               + (IF tar_conds \cap {"blinded", "paralyzed", "petrified", "restrained",
                                    "stunned", "unconscious"} # {}
                  THEN 1 ELSE 0)
        inspired == "bardic_inspiration" \in src_conds
        finesse == \/ "finesse" \in attack_obj.properties
                   \/ /\ "monk_weapon" \in attack_obj.properties
                      /\ "monk" \in DOMAIN s.char_stats.class_level
        use_ability == IF s.char_stats.dex > s.char_stats.str THEN "dex" ELSE "str"
        ability_mod == IF finesse THEN get_mod(s, use_ability)
                       ELSE get_mod(s, attack_obj.ability)
        archery == /\ attack_obj.prof \cap {"simple_ranged_weapon", "martial_ranged_weapon"} # {}
                   /\ "fighting_style" \in DOMAIN s.char_stats.property
                   /\ s.char_stats.property["fighting_style"] = "archery"
        w1 == IF inspired THEN Put(w, source, remove_condition(s, "bardic_inspiration"))
              ELSE w
    IN [w |-> IF finesse THEN Store(w1, [attack_obj EXCEPT !.last_used = use_ability])
              ELSE w1,
        attack_obj |-> IF finesse THEN [attack_obj EXCEPT !.last_used = use_ability]
                       ELSE attack_obj,
        substituted |-> IF finesse THEN use_ability ELSE "",
        adv |-> adv,
        mod |-> (IF inspired THEN bi_roll ELSE 0) + ability_mod + (IF archery THEN 2 ELSE 0)]

\* attack._hit_proficiency
_hit_proficiency(attack_obj, character) ==
    IF attack_obj.prof = {"all"} THEN character.char_stats.prof
    ELSE IF attack_obj.prof \cap character.char_stats.tools # {}
    THEN character.char_stats.prof
    ELSE 0

\* the tuple roll_hit returns once _hit_conditions gave hit_mod
roll_hit_result(hit_mod, attack_obj, source, adv, pair) ==
    LET s == hit_mod.w.chars[source]
        roll == roll_20(adv + hit_mod.adv, pair)
        crit_threshold == IF "crit_threshold" \in DOMAIN s.char_stats.property
                          THEN s.char_stats.property["crit_threshold"]
                          ELSE 20
        total_mod == hit_mod.mod + _hit_proficiency(attack_obj, s) + attack_obj.hitmod
    IN [w |-> hit_mod.w, attack_obj |-> hit_mod.attack_obj, roll |-> roll,
        substituted |-> hit_mod.substituted,
        result |-> IF roll = 1 THEN <<"miss", 0>>
                   ELSE IF roll >= crit_threshold THEN <<"hit", 20>>
                   ELSE <<"norm", roll + total_mod>>]

\* attack.roll_hit: roll is the d20 kept, result the tuple returned
roll_hit(w, attack_obj, source, target, pass_arg, adv, pair, bi_roll) ==
    roll_hit_result(_hit_conditions(w, attack_obj, source, target, pass_arg, bi_roll),
                    attack_obj, source, adv, pair)

\* split('_')[-1] of the patrons a character is given
PatronKind ==
    [genie_dao |-> "dao", genie_djinni |-> "djinni", genie_efreeti |-> "efreeti",
     genie_marid |-> "marid", fiend |-> "fiend"]

GenieType == [dao |-> "m_bludgeoning", djinni |-> "thunder", efreeti |-> "fire",
              marid |-> "cold"]

\* attack._conditional_damage with _comprehend_damage_str of what it gives:
\* genies wrath adds the proficiency bonus once a turn
_conditional_damage(w, source) ==
    LET s == w.chars[source]
        misc == s.char_resources.miscellaneous
    IN IF "genies_wrath" \in DOMAIN misc /\ misc["genies_wrath"] # 0
       THEN IF "patron" \notin DOMAIN s.char_stats.property
            THEN [w |-> Put(w, source, Raise(s, "KeyError")), entries |-> <<>>]
            ELSE IF PatronKind[s.char_stats.property["patron"]] \notin DOMAIN GenieType
            THEN [w |-> Put(w, source, Raise(s, "ValueError")), entries |-> <<>>]
            ELSE [w |-> Put(w, source,
                            [s EXCEPT !.char_resources.miscellaneous["genies_wrath"] = 0]),
                  entries |-> <<[num |-> 0, fac |-> 0, mod |-> s.char_stats.prof, abl |-> "",
                                 typ |-> GenieType[PatronKind[s.char_stats.property["patron"]]]]>>]
       ELSE [w |-> w, entries |-> <<>>]

\* attack._additional_damage: a sneak attack reads
\* source.char_stats['rogue'], and a stats object takes no subscript
_additional_damage(w, attack_obj, source, adv, pass_arg) ==
    LET s == w.chars[source]
    IN IF /\ s.char_resources.sneak_attack # 0
          /\ \/ "finesse" \in attack_obj.properties
             \/ attack_obj.prof \cap {"simple_ranged_weapon", "martial_ranged_weapon"} # {}
          /\ adv > 0 \/ "adj_enemy" \in DOMAIN pass_arg
       THEN [w |-> Put(w, source, Raise(s, "TypeError")), value |-> 0]
       ELSE [w |-> w, value |-> 0]

\* return_val[typ] += value, return_val a list of the types in the order met
add_damage(return_val, typ, value) ==
    IF \E k \in DOMAIN return_val : return_val[k].type = typ
    THEN [k \in DOMAIN return_val |->
             IF return_val[k].type = typ
             THEN [return_val[k] EXCEPT !.value = @ + value] ELSE return_val[k]]
    ELSE Append(return_val, [type |-> typ, value |-> value])

\* a critical hit that doubles the whole of each entry
RECURSIVE roll_damage_loop_doubles_all(_, _, _, _, _, _, _, _)
roll_damage_loop_doubles_all(r, attack_obj, source, crit, adv, pass_arg, dice, damage_list) ==
    IF damage_list = <<>> \/ r.w.err # "none" THEN r
    ELSE LET i_damage == Head(damage_list)
             extra == _additional_damage(r.w, attack_obj, source, adv, pass_arg)
             num_dice == (IF crit THEN 2 ELSE 1) * i_damage.num
             roll == roll_d(i_damage.fac, num_dice, dice, r.from)
             use_ability == IF attack_obj.last_used # "" /\ i_damage.abl \in {"str", "dex"}
                            THEN attack_obj.last_used ELSE i_damage.abl
             own_mod == IF use_ability # "" THEN get_mod(extra.w.chars[source], use_ability)
                        ELSE 0
             ability_mod == IF "offhand" \in DOMAIN pass_arg THEN Min(own_mod, 0) ELSE own_mod
             value == extra.value + roll.total
                      + (IF crit THEN 2 ELSE 1) * (i_damage.mod + ability_mod)
         IN IF extra.w.err # "none" THEN [r EXCEPT !.w = extra.w]
            ELSE roll_damage_loop_doubles_all(
                     [w |-> extra.w,
                      damage |-> add_damage(r.damage, i_damage.typ, value),
                      from |-> r.from + roll.thrown,
                      rolled |-> Append(r.rolled,
                                        [num_dice |-> num_dice, from |-> r.from,
                                         thrown |-> roll.thrown, value |-> value,
                                         abl |-> i_damage.abl,
                                         use_ability |-> use_ability])],
                     attack_obj, source, crit, adv, pass_arg, dice, Tail(damage_list))

\* the loop of roll_damage over damage_list; r.from counts the dice thrown and
\* r.rolled lists, entry by entry, what was rolled and what was added
RECURSIVE roll_damage_loop(_, _, _, _, _, _, _, _)
roll_damage_loop(r, attack_obj, source, crit, adv, pass_arg, dice, damage_list) ==
    IF damage_list = <<>> \/ r.w.err # "none" THEN r
    ELSE LET i_damage == Head(damage_list)
             extra == _additional_damage(r.w, attack_obj, source, adv, pass_arg)
             num_dice == (IF crit THEN 2 ELSE 1) * i_damage.num
             roll == roll_d(i_damage.fac, num_dice, dice, r.from)
             use_ability == IF attack_obj.last_used # "" /\ i_damage.abl \in {"str", "dex"}
                            THEN attack_obj.last_used ELSE i_damage.abl
             own_mod == IF use_ability # "" THEN get_mod(extra.w.chars[source], use_ability)
                        ELSE 0
             ability_mod == IF "offhand" \in DOMAIN pass_arg THEN Min(own_mod, 0) ELSE own_mod
             value == extra.value + roll.total + i_damage.mod + ability_mod
         IN IF extra.w.err # "none" THEN [r EXCEPT !.w = extra.w]
            ELSE roll_damage_loop(
                     [w |-> extra.w,
                      damage |-> add_damage(r.damage, i_damage.typ, value),
                      from |-> r.from + roll.thrown,
                      rolled |-> Append(r.rolled,
                                        [num_dice |-> num_dice, from |-> r.from,
                                         thrown |-> roll.thrown, value |-> value,
                                         abl |-> i_damage.abl,
                                         use_ability |-> use_ability])],
                     attack_obj, source, crit, adv, pass_arg, dice, Tail(damage_list))

\* attack.roll_damage, dice the faces the damage dice show from the from-th on
roll_damage(w, attack_obj, source, crit, adv, pass_arg, dice, from) ==
    LET cond == _conditional_damage(w, source)
    IN roll_damage_loop([w |-> cond.w, damage |-> <<>>, from |-> from, rolled |-> <<>>],
                        attack_obj, source, crit, adv, pass_arg, dice,
                        attack_obj.damage \o cond.entries)

\* the attack names that hold the words _do_attack looks for
Holding ==
    [unarmed |-> {"unarmed", "unarmed_monk"},
     club |-> {"club", "club_shillelagh"},
     quarterstaff |-> {"quarterstaff", "quarterstaff_shillelagh"}]

\* the action names that hold 'offhand'
OffhandActions == {"offhand_attack"}

\* the first attack of char_attacks that holds 'unarmed', in_attack if none does
first_unarmed(char_attacks, in_attack) ==
    IF \E k \in DOMAIN char_attacks : char_attacks[k] \in Holding["unarmed"]
    THEN char_attacks[CHOOSE k \in DOMAIN char_attacks :
                          /\ char_attacks[k] \in Holding["unarmed"]
                          /\ \A j \in 1..(k - 1) : char_attacks[j] \notin Holding["unarmed"]]
    ELSE in_attack

\* the factor of the attack count that goes with the name of the action
attack_factor(name) ==
    IF name = "extra_attack" THEN 2
    ELSE IF name = "extra_attack_3" THEN 3
    ELSE IF name = "extra_attack_4" THEN 4
    ELSE 1

\* the loop of _do_attack, i the attacks made so far and from the damage
\* dice thrown so far
RECURSIVE attack_loop(_, _, _, _, _, _, _, _, _)

\* the end of a pass of the loop: the attack made is logged (who attacked
\* whom, the roll, the ability the attack roll took in place of the attack's
\* own, what each damage entry rolled), the hp of its target is returned and
\* the next pass starts
attack_logged(w3, made, attack_obj, source, target, pass_arg, rolls, from, i, attack_count) ==
    attack_loop([w3 EXCEPT !.log = Append(@, made),
                           !.ret = IF w3.err = "none"
                                   THEN (made.target :> w3.chars[made.target].char_resources.hp) @@ @
                                   ELSE @],
                attack_obj, source, target, pass_arg, rolls, from, i + 1, attack_count)

\* the pass of the loop after the damage roll: a hit deals damage to its target
attack_damaged(w2, damage, made, crit, attack_obj, source, target, pass_arg, rolls, from, i, attack_count) ==
    attack_logged(IF ~made.hit THEN w2
                  ELSE IF damage.w.err # "none" THEN damage.w
                  ELSE Put(damage.w, made.target,
                           take_damage(damage.w.chars[made.target], damage.damage, crit)),
                  IF made.hit THEN [made EXCEPT !.rolled = damage.rolled] ELSE made,
                  attack_obj, source, target, pass_arg, rolls,
                  IF made.hit THEN damage.from ELSE from, i, attack_count)

\* the pass of the loop after the attack roll: the roll is compared with the
\* armor class of the target and the damage is rolled
attack_rolled(roll_result, this_target, adv, source, target, pass_arg, rolls, from, i, attack_count) ==
    LET w2 == roll_result.w
        ac == w2.chars[this_target].char_stats.ac
        hit == ~(roll_result.result[1] = "miss" \/ roll_result.result[2] < ac)
        crit == roll_result.result[1] = "hit"
        made == [source |-> source, target |-> this_target, roll |-> roll_result.roll,
                 result |-> roll_result.result, ac |-> ac, hit |-> hit,
                 substituted |-> roll_result.substituted, rolled |-> <<>>]
    IN IF w2.err # "none" THEN w2
       ELSE attack_damaged(w2,
                           roll_damage(w2, roll_result.attack_obj, source, crit, adv, pass_arg,
                                       rolls.dice, from),
                           made, crit, roll_result.attack_obj, source, target, pass_arg, rolls,
                           from, i, attack_count)

attack_loop(w, attack_obj, source, target, pass_arg, rolls, from, i, attack_count) ==
    IF i >= attack_count \/ w.err # "none" THEN w
    ELSE IF target = <<>> THEN [w EXCEPT !.err = "ZeroDivisionError"]
    ELSE LET this_target == target[(i % Len(target)) + 1]
             t == w.chars[this_target]
             misc == t.char_resources.miscellaneous
             flare == /\ "warding_flare" \in DOMAIN misc
                      /\ t.char_resources.reaction > 0
                      /\ misc["warding_flare"] > 0
             adv == IF flare THEN -1 ELSE 0
             w1 == IF flare
                   THEN Put(w, this_target,
                            add_resource([t EXCEPT !.char_resources.miscellaneous["warding_flare"] = @ - 1],
                                         [reaction |-> -1]))
                   ELSE w
         IN IF w1.err # "none" THEN w1
            ELSE attack_rolled(roll_hit(w1, attack_obj, source, this_target, pass_arg, adv,
                                        At(rolls.d20, i + 1), rolls.bi),
                               this_target, adv, source, target, pass_arg, rolls, from, i,
                               attack_count)

\* action._do_attack (the attack names used hold no blank, so none names a
\* json file of its own)
_do_attack(w, act, source, target, in_attack, additional, rolls) ==
    LET s == w.chars[source]
        named == IF "monk" \in DOMAIN s.char_stats.class_level /\ in_attack = "unarmed"
                 THEN first_unarmed(s.char_attacks, in_attack)
                 ELSE IF HasCond(s, "shillelagh")
                 THEN IF in_attack \in Holding["club"] THEN "club_shillelagh"
                      ELSE IF in_attack \in Holding["quarterstaff"]
                      THEN "quarterstaff_shillelagh"
                      ELSE in_attack
                 ELSE in_attack
        cached == <<act.name, named>> \in DOMAIN w.cache
        attack_obj == IF cached THEN w.cache[<<act.name, named>>]
                      ELSE [Attacks[named] EXCEPT !.action = act.name]
    IN IF named \notin Range(s.char_attacks) THEN [w EXCEPT !.err = "ValueError"]
       ELSE IF ~cached /\ named \notin DOMAIN Attacks THEN [w EXCEPT !.err = "ValueError"]
       ELSE attack_loop(IF cached THEN w ELSE Store(w, attack_obj), attack_obj, source, target,
                        IF act.name \in OffhandActions
                        THEN [offhand |-> TRUE] @@ additional ELSE additional,
                        rolls, 0, 0, attack_obj.multi * attack_factor(act.name))

\* the entry of spells.json by name as spell.__init__ reads it
SpellData ==
    [shillelagh |-> [name |-> "shillelagh", level |-> 0, duration |-> Timed(1, "minute")],
     spell |-> [name |-> "spell", level |-> 1, duration |-> Indefinite]]

\* the spell a spell action names: what follows cast_ or cd_, else the name
spell_name(name) ==
    IF name = "cast_shillelagh" THEN [prefix |-> "cast_", spell |-> "shillelagh"]
    ELSE IF name = "cast_spell" THEN [prefix |-> "cast_", spell |-> "spell"]
    ELSE IF name = "cd_spell" THEN [prefix |-> "cd_", spell |-> "spell"]
    ELSE [prefix |-> "", spell |-> name]

\* action._do_auto; the death save rolls roll, a short rest spends no dice
_do_auto(c, name, additional, roll) ==
    IF name = "long_rest" THEN long_rest(c)
    ELSE IF name = "short_rest" THEN short_rest(c, <<>>, <<>>)
    ELSE IF name = "death_save" THEN do_death_save(c, roll)
    ELSE IF name = "dodge" THEN do_auto_dodge(c)
    ELSE IF name = "wild_shape"
    THEN IF "wild_shape" \notin DOMAIN additional THEN Raise(c, "ValueError")
         ELSE IF "druid" \notin DOMAIN c.char_stats.class_level THEN Raise(c, "KeyError")
         ELSE add_condition(c, "wild_shape",
                            Timed(c.char_stats.class_level["druid"] \div 2, "hour"))
    ELSE IF name = "drop_wild_shape" THEN remove_condition(c, "wild_shape")
    ELSE Raise(c, "Exception")

\* action._do_special: target[0] of an empty list is turned into ValueError
_do_special(w, act, source, target) ==
    IF target = <<>> THEN [w EXCEPT !.err = "ValueError"]
    ELSE LET single_target == target[1]
             t == w.chars[single_target]
         IN IF act.name = "stabilize"
            THEN [Put(w, single_target, add_condition(t, "stabilized", Indefinite))
                     EXCEPT !.ret = (single_target :> "now stabilized")]
            ELSE IF act.name = "bardic_inspiration"
            THEN IF "bard" \notin DOMAIN w.chars[source].char_stats.class_level
                 THEN [w EXCEPT !.err = "KeyError"]
                 ELSE [Put(w, single_target,
                           add_condition(t, "bardic_inspiration", Timed(10, "minute")))
                          EXCEPT !.ret = (single_target :> "got bardic inspiration")]
            ELSE [w EXCEPT !.err = "Exception"]

\* round(distance / divisor, 2) of a whole distance, in hundredths: the
\* hundredth nearest the quotient, the even one of two equally near
round_2(distance, divisor) ==
    LET quotient == (100 * distance) \div divisor
        rest == (100 * distance) % divisor
    IN IF 2 * rest > divisor THEN quotient + 1
       ELSE IF 2 * rest < divisor THEN quotient
       ELSE IF quotient % 2 = 0 THEN quotient
       ELSE quotient + 1

\* the action names _do_movement takes for slow
SlowModes == {"climb", "crawl", "swim"}

\* a movement whose slow mode doubles the divisor of the terrain
_do_movement_doubles(w, act, source, distance, additional) ==
    IF distance <= 0 THEN [w EXCEPT !.err = "ValueError"]
    ELSE LET divisor == (IF "difficult" \in DOMAIN additional THEN 2 ELSE 1)
                        * (IF act.name \in SlowModes THEN 2 ELSE 1)
         IN [w EXCEPT !.ret = (source :> [actual_dist |-> round_2(distance, divisor),
                                          text |-> "feet to LOCATION"])]

\* action._do_movement: actual_dist is kept in hundredths of a foot
_do_movement(w, act, source, distance, additional) ==
    IF distance <= 0 THEN [w EXCEPT !.err = "ValueError"]
    ELSE LET divisor == (IF "difficult" \in DOMAIN additional THEN 2 ELSE 1)
                        + (IF act.name \in SlowModes THEN 1 ELSE 0)
         IN [w EXCEPT !.ret = (source :> [actual_dist |-> round_2(distance, divisor),
                                          text |-> "feet to LOCATION"])]

\* the names of the characters _check_targets accepts
true_targets(w, act, source, target_list) ==
    LET accepted == _check_targets(act.target, w.chars[source],
                                   [k \in DOMAIN target_list |-> w.chars[target_list[k]]])
    IN [k \in DOMAIN accepted |-> accepted[k].name]

\* action.do_action
do_action(w, act, source, target_list, additional, rolls) ==
    LET accepted == true_targets(w, act, source, target_list)
        s == w.chars[source]
    IN IF act.handle = "attack"
       THEN IF accepted = <<>> THEN w
            ELSE IF act.name = "martial_arts"
            THEN _do_attack(w, act, source, accepted, "unarmed", additional, rolls)
            ELSE IF "attack" \notin DOMAIN additional THEN [w EXCEPT !.err = "ValueError"]
            ELSE _do_attack(w, act, source, accepted, additional["attack"], additional, rolls)
       ELSE IF act.handle = "spell"
       THEN IF accepted = <<>> THEN w
            ELSE LET named == spell_name(act.name)
                     caster == IF named.prefix = "cd_"
                               THEN [s EXCEPT !.char_resources.channel_div = @ - 1] ELSE s
                     cast == IF named.spell \in DOMAIN SpellData
                             THEN _do_spell(caster, SpellData[named.spell], additional)
                             ELSE Raise(caster, "ValueError")
                 IN [Put(w, source, cast)
                        EXCEPT !.ret = IF cast.ret = <<>> THEN <<>> ELSE (source :> cast.ret[1])]
       ELSE IF act.handle = "movement"
       THEN IF "distance" \notin DOMAIN additional THEN [w EXCEPT !.err = "ValueError"]
            ELSE _do_movement(w, act, source, additional["distance"], additional)
       ELSE IF act.handle = "auto"
       THEN LET done == _do_auto(s, act.name, additional, At(rolls.d20, 1)[1])
            IN [Put(w, source, done)
                   EXCEPT !.ret = IF done.err = "none" THEN (source :> act.name) ELSE <<>>]
       ELSE IF act.handle = "contest" THEN w
       ELSE _do_special(w, act, source, accepted)

\* ------------------------------------------------------------ an encounter
\* The hero does one action, chosen with its arguments at the start, up to
\* MaxActions times on a party of an ally and two enemies.
PartyNames == {"friend", "foe", "fiend"}

NameLists == UNION {[1..n -> {"hero"} \cup PartyNames] : n \in 0..MaxListed}

ArmorClasses == {10, 21}

\* the faces a pair of d20 shows, and those of a damage die
D20Pairs == {<<1, 20>>, <<20, 1>>, <<10, 10>>, <<19, 19>>}

DieFaces == {1, 4}

\* the actions tried, each with the additional argument it is called with
ActionCalls ==
    {[act |-> [name |-> "attack", handle |-> "attack", target |-> <<"enemy">>],
      additional |-> [attack |-> "club"]],
     [act |-> [name |-> "attack", handle |-> "attack", target |-> <<"enemy">>],
      additional |-> [attack |-> "claws"]],
     [act |-> [name |-> "extra_attack", handle |-> "attack", target |-> <<"enemy">>],
      additional |-> [attack |-> "club"]],
     [act |-> [name |-> "cast_shillelagh", handle |-> "spell", target |-> <<"self">>],
      additional |-> <<>>],
     [act |-> [name |-> "cast_spell", handle |-> "spell", target |-> <<"enemy">>],
      additional |-> <<>>],
     [act |-> [name |-> "stabilize", handle |-> "special", target |-> <<"ally">>],
      additional |-> <<>>]}

\* a character of the party: team, armor class, property and miscellaneous
\* resources are set after the defaults
party_member(member_team, ac, property, miscellaneous) ==
    LET stats == [stats_init(MaxHpBound, HitDiceSome, property) EXCEPT !.ac = ac]
    IN [team |-> member_team, char_stats |-> stats,
        char_resources |-> [resources_init(stats) EXCEPT !.miscellaneous = miscellaneous],
        char_conditions |-> <<>>, char_attacks |-> <<>>]

\* what each character holds that an action can change
Held(chars) ==
    [n \in DOMAIN chars |-> [char_resources |-> chars[n].char_resources,
                             char_conditions |-> chars[n].char_conditions]]

InitAction ==
    /\ team = "pc"
    /\ \E property \in {<<>>, [crit_threshold |-> 19]} :
          char_stats = [set_stats_caster(stats_init(MaxHpBound, HitDiceSome, property),
                                         SlotsCaster, <<>>)
                           EXCEPT !.prof = 2]
    /\ char_resources = resources_init(char_stats)
    /\ char_conditions = <<>>
    /\ err = "none"
    /\ _cache = <<>>
    /\ \E ac \in ArmorClasses :
          party = [n \in PartyNames |->
                      IF n = "friend" THEN party_member("ally", 10, <<>>, <<>>)
                      ELSE IF n = "foe" THEN party_member("enemy", ac, [important |-> TRUE], <<>>)
                      ELSE party_member("enemy", 10, <<>>, [warding_flare |-> 1])]
    /\ \E call \in ActionCalls, target_list \in NameLists :
          last = [op |-> "init", act |-> call.act, additional |-> call.additional,
                  target_list |-> target_list, count |-> 0, accepted |-> <<>>,
                  log |-> <<>>, ret |-> <<>>, pre |-> <<>>]

\* the state do_action leaves, with what it was given and what it did
CommitAction(w) ==
    /\ team' = w.chars["hero"].team
    /\ char_stats' = w.chars["hero"].char_stats
    /\ char_resources' = w.chars["hero"].char_resources
    /\ char_conditions' = w.chars["hero"].char_conditions
    /\ err' = w.err
    /\ party' = [n \in DOMAIN party |->
                    [team |-> w.chars[n].team, char_stats |-> w.chars[n].char_stats,
                     char_resources |-> w.chars[n].char_resources,
                     char_conditions |-> w.chars[n].char_conditions,
                     char_attacks |-> w.chars[n].char_attacks]]
    /\ _cache' = w.cache
    /\ last' = [last EXCEPT !.op = "do_action", !.count = @ + 1,
                            !.accepted = true_targets(World, last.act, "hero", last.target_list),
                            !.log = w.log, !.ret = w.ret, !.pre = Held(World.chars)]

DoAction ==
    /\ err = "none"
    /\ last.count < MaxActions
    /\ \E d20 \in [1..MaxRolls -> D20Pairs], dice \in [1..MaxDice -> DieFaces] :
          CommitAction(do_action(World, last.act, "hero", last.target_list, last.additional,
                                 [d20 |-> d20, dice |-> dice, bi |-> 1]))

NextAction == DoAction

SpecAction == InitAction /\ [][NextAction]_vars

\* ------------------------------------------------ one action for two
\* A monk and a fighter of one party attack the hero in any order, both
\* through the same attack action object, with a quarterstaff or a dagger.

\* the number of attack actions done
MaxShared == 3
\* the hit points of the hero they attack
SharedHp == 24

Attackers == {"monk", "fighter"}

SharedAttacks == <<"quarterstaff", "dagger">>

AttackAction == [name |-> "attack", handle |-> "attack", target |-> <<"enemy">>]

\* a player character of the given class with the two attacks
attacker(class_level, str, dex) ==
    LET member == party_member("pc", 10, <<>>, <<>>)
    IN [member EXCEPT !.char_stats.class_level = class_level,
                      !.char_stats.str = str, !.char_stats.dex = dex,
                      !.char_attacks = SharedAttacks]

InitShared ==
    /\ team = "enemy"
    /\ \E ac \in ArmorClasses :
          char_stats = [stats_init(SharedHp, HitDiceSome, <<>>) EXCEPT !.ac = ac]
    /\ char_resources = resources_init(char_stats)
    /\ char_conditions = <<>>
    /\ err = "none"
    /\ _cache = <<>>
    /\ party = [n \in Attackers |->
                   IF n = "monk" THEN attacker([monk |-> 1], 10, 16)
                   ELSE attacker([fighter |-> 1], 16, 10)]
    /\ last = [op |-> "init", source |-> "", attack |-> "", count |-> 0, log |-> <<>>,
               pre_cache |-> <<>>]

\* the state do_action leaves, with who attacked with what and what was in
\* the cache of the action before
CommitShared(w, source, attack) ==
    /\ team' = w.chars["hero"].team
    /\ char_stats' = w.chars["hero"].char_stats
    /\ char_resources' = w.chars["hero"].char_resources
    /\ char_conditions' = w.chars["hero"].char_conditions
    /\ err' = w.err
    /\ party' = [n \in DOMAIN party |->
                    [team |-> w.chars[n].team, char_stats |-> w.chars[n].char_stats,
                     char_resources |-> w.chars[n].char_resources,
                     char_conditions |-> w.chars[n].char_conditions,
                     char_attacks |-> w.chars[n].char_attacks]]
    /\ _cache' = w.cache
    /\ last' = [op |-> "do_action", source |-> source, attack |-> attack,
                count |-> last.count + 1, log |-> w.log, pre_cache |-> _cache]

SharedAttack ==
    /\ err = "none"
    /\ last.count < MaxShared
    /\ \E source \in Attackers, k \in DOMAIN SharedAttacks, pair \in D20Pairs,
          face \in DieFaces :
          CommitShared(do_action(World, AttackAction, source, <<"hero">>,
                                 [attack |-> SharedAttacks[k]],
                                 [d20 |-> <<pair>>, dice |-> <<face>>, bi |-> 1]),
                       source, SharedAttacks[k])

NextShared == SharedAttack

SpecShared == InitShared /\ [][NextShared]_vars

\* ------------------------------------------------------- one damage roll
\* roll_damage is called once, for an attacker, an attack object, a kind of
\* hit and a pass_arg chosen at the start; the dice are drawn at the call.

\* the _damage lists of the attack objects tried
DamageLists ==
    {<<[num |-> 1, fac |-> 4, mod |-> 0, abl |-> "str", typ |-> "bludgeoning"]>>,
     <<[num |-> 2, fac |-> 4, mod |-> 1, abl |-> "", typ |-> "slashing"],
       [num |-> 1, fac |-> 4, mod |-> 2, abl |-> "dex", typ |-> "slashing"]>>,
     <<[num |-> 1, fac |-> 1, mod |-> 0, abl |-> "str", typ |-> "bludgeoning"]>>,
     <<[num |-> 1, fac |-> 4, mod |-> 1, abl |-> "str", typ |-> "piercing"],
       [num |-> 1, fac |-> 4, mod |-> 0, abl |-> "", typ |-> "poison"]>>}

\* the strength scores of the attacker: a modifier of -1 and one of +3
Strengths == {8, 16}

InitDamage ==
    /\ party = <<>>
    /\ _cache = <<>>
    /\ team = "pc"
    /\ \E score \in Strengths, property \in {<<>>, [patron |-> "genie_efreeti"]} :
          char_stats = [stats_init(MaxHpBound, HitDiceSome, property)
                           EXCEPT !.str = score, !.dex = 14, !.prof = 2]
    /\ \E miscellaneous \in {<<>>, [genies_wrath |-> 1]} :
          /\ miscellaneous # <<>> => "patron" \in DOMAIN char_stats.property
          /\ char_resources = [resources_init(char_stats)
                                  EXCEPT !.miscellaneous = miscellaneous]
    /\ char_conditions = <<>>
    /\ err = "none"
    /\ \E damage \in DamageLists, last_used \in {"", "dex"}, crit \in BOOLEAN,
          pass_arg \in {<<>>, [offhand |-> TRUE]} :
          last = [op |-> "init",
                  attack_obj |-> [Attacks["club"] EXCEPT !.damage = damage,
                                                         !.last_used = last_used],
                  crit |-> crit, pass_arg |-> pass_arg, dice |-> <<>>,
                  damage_list |-> <<>>, damage |-> <<>>, rolled |-> <<>>]

RollDamage ==
    /\ err = "none"
    /\ last.op = "init"
    /\ \E dice \in [1..MaxDice -> DieFaces] :
          LET r == roll_damage(World, last.attack_obj, "hero", last.crit, 0,
                               last.pass_arg, dice, 0)
          IN /\ team' = r.w.chars["hero"].team
             /\ char_stats' = r.w.chars["hero"].char_stats
             /\ char_resources' = r.w.chars["hero"].char_resources
             /\ char_conditions' = r.w.chars["hero"].char_conditions
             /\ err' = r.w.err
             /\ party' = party
             /\ _cache' = _cache
             /\ last' = [last EXCEPT
                            !.op = "roll_damage", !.dice = dice,
                            !.damage_list = last.attack_obj.damage
                                            \o _conditional_damage(World, "hero").entries,
                            !.damage = r.damage, !.rolled = r.rolled]

NextDamage == RollDamage

SpecDamage == InitDamage /\ [][NextDamage]_vars

\* ------------------------------------------------- damage by type
\* A creature with immunities, resistances and vulnerabilities dodges, is
\* petrified or falls prone, and takes damage of one or two types.

\* the most hit points of the creature, and the most damage of one type
MaxMitigatedHp == 6
MaxDamage == 3

DamageTypes == {"fire", "cold", "slashing"}

\* the imm, res and vul lists tried
Mitigations ==
    {[imm |-> {}, res |-> {}, vul |-> {}],
     [imm |-> {"fire"}, res |-> {"cold"}, vul |-> {"slashing"}],
     [imm |-> {"fire"}, res |-> {"fire", "slashing"}, vul |-> {"cold"}]}

\* the damage dicts tried: one type, or two different types
DamageDicts ==
    {<<[type |-> t, value |-> v]>> : t \in DamageTypes, v \in 0..MaxDamage}
    \cup {<<[type |-> "fire", value |-> v], [type |-> t, value |-> u]>> :
             t \in {"cold", "slashing"}, v \in 1..MaxDamage, u \in 1..MaxDamage}

MitigatedConditions == {"dodge", "petrified", "prone"}

InitMitigation ==
    /\ party = <<>>
    /\ _cache = <<>>
    /\ team = "enemy"
    /\ \E m \in Mitigations :
          char_stats = [stats_init(MaxMitigatedHp, HitDiceSome, <<>>)
                           EXCEPT !.imm = m.imm, !.res = m.res, !.vul = m.vul]
    /\ char_resources = resources_init(char_stats)
    /\ char_conditions = <<>>
    /\ err = "none"
    /\ last = [op |-> "init", damage |-> <<>>, pre_hp |-> 0, pre_conds |-> {}]

CommitMitigation(c, op, damage) ==
    /\ team' = c.team
    /\ char_stats' = c.char_stats
    /\ char_resources' = c.char_resources
    /\ char_conditions' = c.char_conditions
    /\ err' = c.err
    /\ party' = party
    /\ _cache' = _cache
    /\ last' = [op |-> op, damage |-> damage, pre_hp |-> char_resources.hp,
                pre_conds |-> CondNames(char_conditions)]

GainMitigatedCondition ==
    /\ err = "none"
    /\ \E name \in MitigatedConditions :
          /\ ~HasCond(Self, name)
          /\ CommitMitigation(add_condition(Self, name, Indefinite), "add_condition", <<>>)

TakeTypedDamage ==
    /\ err = "none"
    /\ \E damage \in DamageDicts :
          CommitMitigation(take_damage(Self, damage, FALSE), "take_damage", damage)

NextMitigation ==
    \/ GainMitigatedCondition
    \/ TakeTypedDamage

SpecMitigation == InitMitigation /\ [][NextMitigation]_vars

\* ------------------------------------------------------ the choice of an action
\* actionChooser._get_random_action: None (here "None") when the character has
\* no action of the type, else what _random_by_bias draws, pick
_get_random_action(actions, act_type, pick) ==
    IF actions[act_type] = {} THEN "None" ELSE pick

\* get_random_action that lets an incapacitated character take a bonus action
get_random_action_bonus(c, actions, act_type, pick) ==
    IF act_type \notin {"regular", "movement", "bonus", "reaction", "free"}
    THEN Raise([c EXCEPT !.ret = <<>>], "ValueError")
    ELSE [c EXCEPT !.ret = <<
        IF HasCond(c, "death") THEN "None"
        ELSE IF HasCond(c, "dying")
        THEN IF HasCond(c, "stabilized") THEN "None"
             ELSE IF act_type = "regular" THEN "death_save"
             ELSE "None"
        ELSE IF \E name \in {"unconscious", "petrified", "paralyzed", "stunned"} : HasCond(c, name)
        THEN "None"
        ELSE IF act_type = "regular" /\ HasCond(c, "incapacitated") THEN "None"
        ELSE IF act_type = "movement" /\ HasCond(c, "prone") THEN "crawl"
        ELSE IF act_type = "movement" /\ HasCond(c, "grappling") THEN "move_while_grappling"
        ELSE IF act_type = "reaction" /\ HasCond(c, "incapacitated") THEN "None"
        ELSE _get_random_action(actions, act_type, pick) >>]

\* combatCharacter.get_random_action; the name returned, or "None", is c.ret[1]
get_random_action(c, actions, act_type, pick) ==
    IF act_type \notin {"regular", "movement", "bonus", "reaction", "free"}
    THEN Raise([c EXCEPT !.ret = <<>>], "ValueError")
    ELSE [c EXCEPT !.ret = <<
        IF HasCond(c, "death") THEN "None"
        ELSE IF HasCond(c, "dying")
        THEN IF HasCond(c, "stabilized") THEN "None"
             ELSE IF act_type = "regular" THEN "death_save"
             ELSE "None"
        ELSE IF \E name \in {"unconscious", "petrified", "paralyzed", "stunned"} : HasCond(c, name)
        THEN "None"
        ELSE IF act_type = "regular" /\ HasCond(c, "incapacitated") THEN "None"
        ELSE IF act_type = "movement" /\ HasCond(c, "prone") THEN "crawl"
        ELSE IF act_type = "movement" /\ HasCond(c, "grappling") THEN "move_while_grappling"
        ELSE IF act_type = "bonus" /\ HasCond(c, "incapacitated") THEN "None"
        ELSE IF act_type = "reaction" /\ HasCond(c, "incapacitated") THEN "None"
        ELSE _get_random_action(actions, act_type, pick) >>]

\* the actions of the character by type, those with a bias above 0
ChoiceActions ==
    [regular |-> {"attack", "dodge"}, movement |-> {"move"}, bonus |-> {"offhand_attack"},
     reaction |-> {}, free |-> {"drop"}, special |-> {"stabilize"}]

\* the act_type arguments tried
ActTypes == {"regular", "movement", "bonus", "reaction", "free", "special"}

\* the conditions the character is given
ChoiceConditions == {"dodge", "incapacitated", "stunned", "prone", "grappling"}

InitChoose ==
    /\ party = <<>>
    /\ _cache = <<>>
    /\ team \in {"pc", "enemy"}
    /\ char_stats = stats_init(MaxHpBound, HitDiceSome, <<>>)
    /\ char_resources = resources_init(char_stats)
    /\ char_conditions = <<>>
    /\ err = "none"
    /\ last = [op |-> "init", act_type |-> "", ret |-> <<>>]

CommitChoose(c, op, act_type) ==
    /\ team' = c.team
    /\ char_stats' = c.char_stats
    /\ char_resources' = c.char_resources
    /\ char_conditions' = c.char_conditions
    /\ err' = c.err
    /\ party' = party
    /\ _cache' = _cache
    /\ last' = [op |-> op, act_type |-> act_type, ret |-> c.ret]

GainChoiceCondition ==
    /\ err = "none"
    /\ \E name \in ChoiceConditions :
          /\ ~HasCond(Self, name)
          /\ CommitChoose(add_condition(Self, name, Indefinite), "add_condition", "")

Struck ==
    /\ err = "none"
    /\ \E v \in 1..MaxHpBound :
          CommitChoose(take_damage(Self, Slashing(v), FALSE), "take_damage", "")

GetRandomAction ==
    /\ err = "none"
    /\ \E act_type \in ActTypes :
          \E pick \in ChoiceActions[act_type] \cup {"None"} :
              CommitChoose(get_random_action(Self, ChoiceActions, act_type, pick),
                           "get_random_action", act_type)

NextChoose ==
    \/ GainChoiceCondition
    \/ Struck
    \/ GetRandomAction

SpecChoose == InitChoose /\ [][NextChoose]_vars

\* ------------------------------------------------------------ one movement
\* The hero does one movement action, chosen with its arguments at the start.

\* the longest distance asked for, in feet
MaxDistance == 12

\* the movement actions tried
MoveActions ==
    {[name |-> n, handle |-> "movement", target |-> <<"self">>] :
        n \in {"move"} \cup SlowModes}

\* the additional arguments tried: a distance, or none, on normal or on
\* difficult terrain
MoveArguments ==
    {<<>>} \cup {[distance |-> d] : d \in (-1)..MaxDistance}
           \cup {[distance |-> d, difficult |-> TRUE] : d \in (-1)..MaxDistance}

InitMove ==
    /\ party = <<>>
    /\ _cache = <<>>
    /\ team = "pc"
    /\ char_stats = stats_init(MaxHpBound, HitDiceSome, <<>>)
    /\ char_resources = resources_init(char_stats)
    /\ char_conditions = <<>>
    /\ err = "none"
    /\ \E act \in MoveActions, additional \in MoveArguments :
          last = [op |-> "init", act |-> act, additional |-> additional, ret |-> <<>>]

\* the state do_action leaves, with what it returned
CommitMove(w) ==
    /\ team' = w.chars["hero"].team
    /\ char_stats' = w.chars["hero"].char_stats
    /\ char_resources' = w.chars["hero"].char_resources
    /\ char_conditions' = w.chars["hero"].char_conditions
    /\ err' = w.err
    /\ party' = party
    /\ _cache' = w.cache
    /\ last' = [last EXCEPT !.op = "do_action", !.ret = w.ret]

Move ==
    /\ err = "none"
    /\ last.op = "init"
    /\ CommitMove(do_action(World, last.act, "hero", <<>>, last.additional,
                            [d20 |-> <<<<1, 1>>>>, dice |-> <<1>>, bi |-> 1]))

NextMove == Move

SpecMove == InitMove /\ [][NextMove]_vars

\* ------------------------------------------------------- a rest with hit dice
\* A player character with several sizes of hit dice spends them, is hurt and
\* rests; last remembers the rest called and the pool it was called on.

\* the most hit points of the resting character
MaxRestHp == 4

\* the hit dice pools tried: one die, two sizes of three dice, three sizes of
\* five dice and three sizes of six
RestCeilings ==
    {[f \in HitDieFaces |-> IF f = 8 THEN 1 ELSE 0],
     [f \in HitDieFaces |-> IF f = 8 THEN 2 ELSE IF f = 10 THEN 1 ELSE 0],
     [f \in HitDieFaces |-> IF f = 6 THEN 2 ELSE IF f = 10 THEN 2 ELSE IF f = 12 THEN 1 ELSE 0],
     [f \in HitDieFaces |-> IF f = 6 THEN 1 ELSE IF f = 8 THEN 3 ELSE IF f = 12 THEN 2 ELSE 0]}

\* the constitution scores tried: modifiers of -2, 0 and +2
Constitutions == {6, 10, 14}

\* the faces a hit die shows (each can come up on every die size)
HitDieRolls == {1, 2, 6}

\* the spend_dice lists tried: none, one d8, two d12, a d6 with two d8, and a
\* size no character has
RestSpendChoices ==
    {<<>>, <<Die(1, 8)>>, <<Die(2, 12)>>, <<Die(1, 6), Die(2, 8)>>, <<Die(1, 4)>>}

InitRest ==
    /\ party = <<>>
    /\ _cache = <<>>
    /\ team = "pc"
    /\ \E hit_dice \in RestCeilings, con \in Constitutions :
          char_stats = [stats_init(MaxRestHp, hit_dice, <<>>) EXCEPT !.con = con]
    /\ char_resources = resources_init(char_stats)
    /\ char_conditions = <<>>
    /\ err = "none"
    /\ last = [op |-> "init", spend_dice |-> <<>>, rolls |-> <<>>, pre_hp |-> 0,
               pre_hit_dice |-> char_stats.hit_dice, pre_conds |-> {}]

\* the state a call leaves, with the call and the pool it was made on
CommitRest(c, op, spend_dice, rolls) ==
    /\ team' = c.team
    /\ char_stats' = c.char_stats
    /\ char_resources' = c.char_resources
    /\ char_conditions' = c.char_conditions
    /\ err' = c.err
    /\ party' = party
    /\ _cache' = _cache
    /\ last' = [op |-> op, spend_dice |-> spend_dice, rolls |-> rolls,
                pre_hp |-> char_resources.hp, pre_hit_dice |-> char_resources.hit_dice,
                pre_conds |-> CondNames(char_conditions)]

\* add_resource({'hit_dice': {faces: -1}})
SpendHitDie ==
    /\ err = "none"
    /\ \E faces \in HitDieFaces :
          CommitRest(add_resource(Self, [hit_dice |-> <<<<faces, -1>>>>]), "add_resource",
                     <<>>, <<>>)

Hurt ==
    /\ err = "none"
    /\ \E v \in 1..MaxRestHp :
          CommitRest(take_damage(Self, Slashing(v), FALSE), "take_damage", <<>>, <<>>)

RestLong ==
    /\ err = "none"
    /\ CommitRest(long_rest(Self), "long_rest", <<>>, <<>>)

RestShort ==
    /\ err = "none"
    /\ \E spend_dice \in RestSpendChoices :
          \E rolls \in [1..Requested(spend_dice) -> HitDieRolls] :
              CommitRest(short_rest(Self, spend_dice, rolls), "short_rest", spend_dice, rolls)

NextRest ==
    \/ SpendHitDie
    \/ Hurt
    \/ RestLong
    \/ RestShort

SpecRest == InitRest /\ [][NextRest]_vars

\* ------------------------------------------------------------ properties
Has(name) == name \in CondNames(char_conditions)

Had(name) == name \in last.pre_conds

hp == char_resources.hp

death_saves == char_resources.death_saves

NoSaves == [success |-> 0, fail |-> 0]

\* the character rolls death saves: a player character or one flagged important
Eligible == team = "pc" \/ "important" \in DOMAIN char_stats.property

Count(S) == Cardinality({n \in S : Has(n)})

C2_RemoveHpToZero ==
    (last.op = "take_damage" /\ ~Had("dying") /\ hp = 0) =>
        IF Eligible
        THEN IF Abs(last.pre_hp - last.amount) < char_stats.max_hp
             THEN Has("dying") /\ (Has("death") => Had("death"))
             ELSE Has("death") /\ ~Has("dying")
        ELSE Has("death") /\ ~Has("dying")

\* damage beyond the remaining hp, but by less than max_hp, leaves a player dying
C2_Witness ==
    /\ last.op = "take_damage"
    /\ last.pre_hp > 0
    /\ last.amount > last.pre_hp
    /\ hp = 0
    /\ Has("dying")
    /\ ~Has("death")

\* C3 as stated: damage taken by a dying character returns normally, leaves
\* hp at 0 and counts one death-save failure (two on a critical hit), the
\* character being dead once the failures reach 3.
C3_DamageWhileDying ==
    (last.op = "take_damage" /\ Had("dying")) =>
        /\ err = "none"
        /\ hp = 0
        /\ LET fail == last.pre_saves.fail + (IF last.was_crit THEN 2 ELSE 1)
           IN IF fail >= 3
              THEN Has("death") /\ ~Has("dying")
              ELSE death_saves.fail = fail

\* the cumulative tally a death roll of 1..19 leads to
C4_Fail == last.pre_saves.fail
               + (IF last.roll = 1 THEN 2 ELSE IF last.roll <= 9 THEN 1 ELSE 0)

C4_Success == last.pre_saves.success + (IF last.roll >= 10 THEN 1 ELSE 0)

\* C4: a death save of a dying, non-stabilized character counts two failures
\* on a 1, one failure on 2-9 and one success on 10-19; at three failures the
\* character loses dying and gains death, at three successes it gains
\* stabilized, and before that it stays dying with the new tally.
C4_DeathSave ==
    (last.op = "do_death_save" /\ last.roll \in 1..19) =>
        /\ err = "none"
        /\ C4_Fail >= 3 => ~Has("dying") /\ Has("death")
        /\ C4_Success >= 3 => Has("stabilized") /\ Has("dying")
        /\ (C4_Fail < 3 /\ C4_Success < 3) =>
              /\ death_saves = [success |-> C4_Success, fail |-> C4_Fail]
              /\ Has("dying")
              /\ ~Has("stabilized")

\* a natural 1 on a character with one failure kills it
C4_Witness ==
    /\ last.op = "do_death_save"
    /\ last.roll = 1
    /\ last.pre_saves.fail = 1
    /\ Has("death")
    /\ ~Has("dying")

\* C5 as stated: damage taken at 0 HP by a stabilized character gives it a
\* death-save failure, which removes stabilized and leaves it dying.
C5_StabilizedLosesOnDamage ==
    (last.op = "take_damage" /\ Had("dying") /\ Had("stabilized")) =>
        /\ ~Has("stabilized")
        /\ Has("dying")

\* C6 as stated: a heal_hp call that leaves a character that is not dead
\* above 0 HP leaves it without dying, without stabilized and with an empty
\* death-save tally.
C6_HealClearsDyingAndStabilized ==
    (last.op = "heal_hp" /\ ~Has("death") /\ hp > 0) =>
        /\ ~Has("dying")
        /\ ~Has("stabilized")
        /\ death_saves = NoSaves

\* C7 as stated: heal_hp on a dead character raises, and leaves hp and the
\* conditions as they were.
C7_HealDeadRaises ==
    (last.op = "heal_hp" /\ Had("death")) =>
        /\ err # "none"
        /\ hp = last.pre_hp
        /\ CondNames(char_conditions) = last.pre_conds

\* C8 as stated: after a natural 20 the character has 1 HP, is no longer
\* dying, and its death-save tally is what it was before the roll.
C8_Natural20KeepsTally ==
    (last.op = "do_death_save" /\ last.roll = 20) =>
        /\ hp = 1
        /\ ~Has("dying")
        /\ death_saves = last.pre_saves

\* C8 amended: after a natural 20 a character that is not also dead has 1 HP,
\* is no longer dying and has an empty tally; one that holds death as well
\* is refused the heal and is left as it was.
C8_Natural20ResetsTally ==
    (last.op = "do_death_save" /\ last.roll = 20) =>
        /\ err = "none"
        /\ IF Had("death")
           THEN /\ hp = 0
                /\ Has("dying")
                /\ death_saves = last.pre_saves
           ELSE /\ hp = 1
                /\ ~Has("dying")
                /\ ~Has("stabilized")
                /\ death_saves = NoSaves

\* a natural 20 rolled with a tally that was not empty
C8_Witness ==
    /\ last.op = "do_death_save"
    /\ last.roll = 20
    /\ last.pre_saves.fail > 0
    /\ last.pre_saves.success > 0
    /\ hp = 1
    /\ ~Has("dying")

\* C9 as stated: right after the third success the tally still shows three
\* successes and the failures collected so far.
C9_StabilizeKeepsTally ==
    (last.op = "do_death_save" /\ last.roll \in 10..19 /\ last.pre_saves.success = 2) =>
        death_saves = [success |-> 3, fail |-> last.pre_saves.fail]

\* C9 amended: the third success makes the character stabilized, and gaining
\* stabilized resets the tally to no successes and no failures.
C9_StabilizeResetsTally ==
    (last.op = "do_death_save" /\ last.roll \in 10..19 /\ last.pre_saves.success = 2) =>
        /\ Has("stabilized")
        /\ Has("dying")
        /\ death_saves = NoSaves

\* a third success rolled by a character that had failures
C9_Witness ==
    /\ last.op = "do_death_save"
    /\ last.roll \in 10..19
    /\ last.pre_saves.success = 2
    /\ last.pre_saves.fail > 0
    /\ Has("stabilized")

\* C10: the tally is empty right after every call that gains dying and right
\* after every call that loses it.
C10_TallyResetAroundDying ==
    /\ (Has("dying") /\ ~Had("dying")) => death_saves = NoSaves
    /\ (~Has("dying") /\ Had("dying")) => death_saves = NoSaves

\* dying lost to a third failure
C10_Witness ==
    /\ last.op = "do_death_save"
    /\ last.pre_saves.fail = 2
    /\ Had("dying")
    /\ ~Has("dying")
    /\ Has("death")

\* the lowest level at or above min_level that has a slot left, 0 if none has
LowestAvailable(slots, min_level) ==
    LET have == {L \in min_level..9 : slots[L] > 0}
    IN IF have = {} THEN 0 ELSE CHOOSE L \in have : \A K \in have : L <= K

\* C11 as stated: every hit-dice count and every spell-slot count lies
\* between 0 and its ceiling in the character's stats.
C11_CountersWithinCeiling ==
    /\ \A f \in HitDieFaces :
          0 <= char_resources.hit_dice[f] /\ char_resources.hit_dice[f] <= char_stats.hit_dice[f]
    /\ \A l \in SlotLevels :
          0 <= char_resources.spell_slots[l] /\ char_resources.spell_slots[l] <= char_stats.slots[l]

\* C12 as stated: get_next_available_slot returns the lowest level at or
\* above min_level with a slot left (0 if there is none), and a cast without
\* an upcast request spends one slot of exactly that level.
C12_LowestAvailableSlot ==
    /\ last.op = "get_next_available_slot" =>
          last.ret = LowestAvailable(last.pre_slots, last.arg)
    /\ (/\ last.op = "_do_spell"
        /\ last.arg[1].level > 0
        /\ "upcast" \notin DOMAIN last.arg[2]
        /\ LowestAvailable(last.pre_slots, last.arg[1].level) # 0) =>
          char_resources.spell_slots =
              [last.pre_slots EXCEPT ![LowestAvailable(last.pre_slots, last.arg[1].level)] = @ - 1]

\* -------------------------------------------------------------------- C13
\* the registry entries called name
Entries(conds, name) == {i \in DOMAIN conds : conds[i].name = name}

\* the last call was add_condition for a name the character already held
ReAdded == last.op = "add_condition" /\ last.name \in last.pre_conds

\* C13: add_condition for a name already held leaves exactly one registry
\* entry of that name, runs no gain hook and no cascade (the only calls are
\* add_condition itself and the entry's add_time), and changes nothing but
\* that entry's remaining time, which does not get shorter.
C13_ReAddOnlyExtends ==
    ReAdded =>
        /\ Cardinality(Entries(char_conditions, last.name)) = 1
        /\ last.events = << <<"add_condition", last.name>>, <<"add_time", last.name>> >>
        /\ char_stats = last.pre_stats
        /\ char_resources = last.pre_resources
        /\ Len(char_conditions) = Len(last.pre)
        /\ \A i \in DOMAIN char_conditions :
              /\ char_conditions[i] = [last.pre[i] EXCEPT !.remaining = char_conditions[i].remaining]
              /\ char_conditions[i].name # last.name
                    => char_conditions[i].remaining = last.pre[i].remaining
              /\ ~FloatLt(char_conditions[i].remaining, last.pre[i].remaining)

\* a timed condition held with 1 round remaining was added again for 1 round
\* and has 2 rounds remaining
C13_Witness ==
    /\ ReAdded
    /\ err = "none"
    /\ \E i \in DOMAIN char_conditions :
          /\ char_conditions[i].name = last.name
          /\ last.pre[i].remaining = FloatOfInt(1)
          /\ char_conditions[i].remaining = FloatOfInt(2)

\* -------------------------------------------------------------------- C14
\* the last call was add_condition for a name the character did not hold
NewlyGained == last.op = "add_condition" /\ last.name \notin last.pre_conds

\* C14: after add_condition for a newly gained condition, a character that
\* gained dying has unconscious, one that gained paralyzed, petrified,
\* stunned or unconscious has incapacitated, one that gained unconscious has
\* prone, and one that gained incapacitated has no dodge, with or without
\* dodge beforehand.
C14_GainCascades ==
    NewlyGained /\ Has(last.name) =>
        /\ last.name = "dying" => Has("unconscious")
        /\ last.name \in IncapacitatingConditions => Has("incapacitated")
        /\ last.name = "unconscious" => Has("prone")
        /\ last.name = "incapacitated" => ~Has("dodge")

\* -------------------------------------------------------------------- C15
\* the last call was remove_condition for a name the character held
Removed == last.op = "remove_condition" /\ last.name \in last.pre_conds

\* C15: after remove_condition('dying') on a character that had dying it has
\* neither dying nor unconscious; after remove_condition of paralyzed,
\* petrified, stunned or unconscious on a character that had it, it has no
\* incapacitated.
C15_LossCascades ==
    Removed =>
        /\ last.name = "dying" => ~Has("dying") /\ ~Has("unconscious")
        /\ last.name \in IncapacitatingConditions => ~Has("incapacitated")

\* dying was removed from a character that also had unconscious and
\* incapacitated, and the call returned
C15_Witness ==
    /\ Removed
    /\ last.name = "dying"
    /\ {"unconscious", "incapacitated"} \subseteq last.pre_conds
    /\ err = "none"

\* -------------------------------------------------------------------- C16
\* the positions of the last call's trace where an entry called name was
\* deleted / where the loss hook of the entry called name was called
Deletions(name) == {k \in DOMAIN last.events : last.events[k] = <<"del", name>>}

LossHooks(name) == {k \in DOMAIN last.events : last.events[k] = <<"_effect_on_loss", name>>}

C17_CascadeTerminates ==
    /\ err # "RecursionError"
    /\ last.max_depth <= 4
    /\ Len(last.events) <= 4 * 4

\* dying was gained by a character that had dodge: the chain went through
\* unconscious and incapacitated to the removal of dodge, 4 calls deep
C17_Witness ==
    /\ last.op = "add_condition"
    /\ last.name = "dying"
    /\ last.max_depth = 4
    /\ err = "none"
    /\ <<"del", "dodge">> \in {last.events[k] : k \in DOMAIN last.events}

\* -------------------------------------------------------------------- C18
\* the last call was check_all_conditions
Checked == last.op = "check_all_conditions"

\* the names whose entries the last call deleted
Deleted == {name \in ConditionNames : Deletions(name) # {}}

\* the first events of the check are one check_condition call for each entry
\* of the registry, in its order, and no check_condition call comes later
AdvancedOnceThenRemoved ==
    /\ Len(last.events) >= Len(last.pre)
    /\ \A i \in DOMAIN last.pre : last.events[i] = <<"check_condition", last.pre[i].name>>
    /\ \A k \in DOMAIN last.events :
          k > Len(last.pre) => last.events[k][1] # "check_condition"

\* no timed condition with remaining <= 0 is in the registry
NoExpiredLeft ==
    \A i \in DOMAIN char_conditions :
        ~char_conditions[i].indefinite => ~FloatLeZero(char_conditions[i].remaining)

\* the loss of a condition just deleted removes the indefinite condition name
\* by cascade
CascadedLoss(name) ==
    \/ name = "unconscious" /\ "dying" \in Deleted
    \/ name = "incapacitated" /\ Deleted \cap IncapacitatingConditions # {}

\* C18 as stated: check_all_conditions advances every condition exactly once
\* and removes the expired ones only after all have been advanced; when it
\* returns every indefinite condition is still present and no timed
\* condition with remaining <= 0 is left.
C18_IndefiniteAlwaysKept ==
    Checked =>
        /\ AdvancedOnceThenRemoved
        /\ err = "none" =>
              /\ \A i \in DOMAIN last.pre : last.pre[i].indefinite => Has(last.pre[i].name)
              /\ NoExpiredLeft

\* C18: check_all_conditions advances every condition exactly once and
\* removes the expired ones only after all have been advanced; when it
\* returns no timed condition with remaining <= 0 is left, and every
\* indefinite condition is still present unchanged, except an unconscious or
\* incapacitated that the loss of an expired condition removed by cascade.
C18_IndefiniteKeptUnlessCascaded ==
    Checked =>
        /\ AdvancedOnceThenRemoved
        /\ err = "none" =>
              /\ \A i \in DOMAIN last.pre :
                    last.pre[i].indefinite /\ ~CascadedLoss(last.pre[i].name)
                      => \E j \in DOMAIN char_conditions : char_conditions[j] = last.pre[i]
              /\ NoExpiredLeft

\* a check returned after it advanced a timed and an indefinite condition:
\* the timed one expired and was removed, the indefinite one went with it by
\* cascade
C18_Witness ==
    /\ Checked
    /\ err = "none"
    /\ \E i, j \in DOMAIN last.pre :
          /\ ~last.pre[i].indefinite /\ ~Has(last.pre[i].name)
          /\ last.pre[j].indefinite /\ ~Has(last.pre[j].name)

\* -------------------------------------------------------------------- C19
\* C19: a timed condition given r ends at the check_condition call with
\* which the time passed in total first reaches r, and is active while the
\* total is less than r (in particular one call with exactly r ends it and
\* one with less does not). Time passed that does not count for a sont or
\* eont condition is left out of the total.
C19_EndsWhenElapsedReachesGiven ==
    char_conditions[1].valid <=> last.elapsed < last.given

\* -------------------------------------------------------------------- C20
\* the last call was check_condition on a sont or eont condition
ChecksTurnCondition == last.op = "check_condition" /\ last.pre.unit \in {"sont", "eont"}

\* C20: check_condition never takes time from a sont or eont condition for
\* time passed in round or second; only minute, hour and day do, and the
\* condition's own unit, which takes the amount passed one for one.
C20_TurnConditionsIgnoreRounds ==
    ChecksTurnCondition =>
        LET before == last.pre.remaining
            after == char_conditions[1].remaining
            unit == last.time_passed.unit
        IN /\ unit \in {"round", "second"} => after = before
           /\ after # before => unit \in {"minute", "hour", "day", last.pre.unit}
           /\ unit \in {"minute", "hour", "day"} => FloatLt(after, before)
           /\ unit = last.pre.unit
                 => after = FloatSub(before, FloatOfInt(last.time_passed.amount))

\* a sont condition given 2 is checked a second time, with a round passed:
\* it has what the first check, with 1 sont passed, left it
C20_Witness ==
    /\ ChecksTurnCondition
    /\ last.pre.unit = "sont"
    /\ last.time_passed.unit = "round"
    /\ last.advances = 2
    /\ char_conditions[1].remaining = FloatOfInt(1)
    /\ char_conditions[1].valid

\* -------------------------------------------------------------------- C21
\* the seconds of the units the conversion table lists
ClockUnits == {"round", "second", "minute", "hour", "day"}

ClockSeconds(unit) ==
    CASE unit = "round" -> 6
      [] unit = "second" -> 1
      [] unit = "minute" -> 60
      [] unit = "hour" -> 3600
      [] unit = "day" -> 86400

\* C21: when add_condition extends a condition already present, a duration
\* in the condition's own unit is added as it is, a duration in another unit
\* of the table round=6s, second=1s, minute=60s, hour=3600s, day=86400s is
\* converted by the table into the condition's unit, and nothing is converted
\* between a next-turn unit (sont, eont) and round or second: such a
\* duration leaves the remaining time as it was.
C21_ExtensionConvertsByTable ==
    last.op = "add_time" =>
        LET before == last.pre.remaining
            after == char_conditions[1].remaining
            own == last.pre.unit
            unit == last.time_passed.unit
            amount == last.time_passed.amount
        IN /\ own = unit => after = FloatAdd(before, FloatOfInt(amount))
           /\ own # unit /\ {own, unit} \subseteq ClockUnits
                 => after = FloatAdd(before,
                                     FloatTimesInt(FloatDiv(ClockSeconds(unit), ClockSeconds(own)),
                                                   amount))
           /\ \/ own \in {"sont", "eont"} /\ unit \in {"round", "second"}
              \/ unit \in {"sont", "eont"} /\ own \in {"round", "second"}
              => after = before

\* -------------------------------------------------------------------- C22
\* C22: a character with speed s that has neither grappled nor restrained
\* and gains one of them, with a timed or an indefinite duration, has speed
\* 0 and movement 0; when it then loses that condition its speed and its
\* movement are s again.
C22_SpeedZeroedAndRestored ==
    /\ last.op = "add_condition" /\ last.pre_conds = {}
          => char_stats.speed = 0 /\ char_resources.movement = 0
    /\ last.op = "remove_condition" /\ last.name \in last.pre_conds
          => \A speed \in Speeds :
                last.name = last.gained.name /\ last.gained.speed = speed
                  => char_stats.speed = speed /\ char_resources.movement = speed

\* -------------------------------------------------------------------- C23
\* two characters are of the same alignment: both on the side of the player
\* characters (pc, ally), or both enemies
SameAlignment(a, b) == (a.team \in {"pc", "ally"}) = (b.team \in {"pc", "ally"})

\* the candidate is in one of the declared categories, seen from the source
MatchesCategory(target, source, candidate) ==
    \/ "self" \in Range(target) /\ candidate.name = source.name
    \/ "enemy" \in Range(target) /\ ~SameAlignment(source, candidate)
    \/ "ally" \in Range(target) /\ SameAlignment(source, candidate)
                                /\ candidate.name # source.name

\* C23: target validation returns exactly the candidates that match the
\* action's declared target categories, in input order: self matches the
\* source only, enemy the characters of the opposing alignment, ally those
\* of the same alignment other than the source; only an action that
\* declares no category accepts every candidate.
C23_AcceptsExactlyDeclared ==
    last.op = "_check_targets" =>
        last.ret = SelectSeq(last.target_list,
                             LAMBDA candidate :
                                \/ last.target = <<>>
                                \/ MatchesCategory(last.target, last.source, candidate))

\* what the characters hold now, as Held lists it
HeldNow ==
    [n \in {"hero"} \cup DOMAIN party |->
        IF n = "hero"
        THEN [char_resources |-> char_resources, char_conditions |-> char_conditions]
        ELSE [char_resources |-> party[n].char_resources,
              char_conditions |-> party[n].char_conditions]]

\* C24: when _check_targets accepts no candidate, do_action of an attack, a
\* spell or a special action raises nothing, returns the empty dict and leaves
\* the resources, the HP and the conditions of every character as they were.
C24_NoTargetNoEffect ==
    (/\ last.op = "do_action"
     /\ last.accepted = <<>>
     /\ last.act.handle \in {"attack", "spell", "special"})
        => /\ err = "none"
           /\ last.ret = <<>>
           /\ HeldNow = last.pre

\* a slot of level min_level or above is left in slots
SlotLeft(slots, min_level) == \E l \in SlotLevels : l >= min_level /\ slots[l] > 0

CritThreshold ==
    IF "crit_threshold" \in DOMAIN char_stats.property
    THEN char_stats.property["crit_threshold"] ELSE 20

\* the first half of C26: an attack whose d20 shows 1 misses
NaturalOneMisses ==
    last.op = "do_action"
        => \A k \in DOMAIN last.log : last.log[k].roll = 1 => ~last.log[k].hit

\* C26: an attack whose d20 shows 1 misses whatever the modifiers and the
\* target's armor class, and one whose d20 shows the attacker's critical
\* threshold (20 unless the character sets it) or more hits whatever the
\* target's armor class.
C26_NaturalOneMissesCritHits ==
    /\ NaturalOneMisses
    /\ last.op = "do_action"
          => \A k \in DOMAIN last.log : last.log[k].roll >= CritThreshold => last.log[k].hit

\* the faces of the num dice an entry throws, from the from-th die on
RECURSIVE Faces(_, _)
Faces(from, num) ==
    IF num = 0 THEN 0
    ELSE last.dice[(from % Len(last.dice)) + 1] + Faces(from + 1, num - 1)

\* the ability modifier of a damage entry: that of the ability the attack
\* roll used, or of the entry's own, 0 for an entry that names no ability
OwnAbility(entry) ==
    LET ability == IF last.attack_obj.last_used # "" /\ entry.abl \in {"str", "dex"}
                   THEN last.attack_obj.last_used ELSE entry.abl
    IN IF ability = "" THEN 0 ELSE (char_stats[ability] - 10) \div 2

\* what the ability adds to the damage: in an off-hand attack a positive
\* modifier is left out
AbilityPart(entry) ==
    IF "offhand" \in DOMAIN last.pass_arg /\ OwnAbility(entry) > 0 THEN 0
    ELSE OwnAbility(entry)

\* the value of the k-th entry of a critical hit, given what its ability adds
CritValue(k, ability_mod) ==
    LET entry == last.damage_list[k]
    IN (IF entry.fac > 1 THEN Faces(last.rolled[k].from, 2 * entry.num)
        ELSE IF entry.fac = 1 THEN 2 * entry.num ELSE 0)
       + entry.mod + ability_mod

\* the total of the entries of one type
RECURSIVE TypeTotal(_, _)
TypeTotal(typ, k) ==
    IF k = 0 THEN 0
    ELSE (IF last.damage_list[k].typ = typ THEN last.rolled[k].value ELSE 0)
         + TypeTotal(typ, k - 1)

\* C27 as stated: on a critical hit every damage entry throws twice its
\* listed number of dice and adds its flat modifier and its ability modifier
\* once each.
C27_CritAddsEachOnce ==
    (last.op = "roll_damage" /\ last.crit /\ err = "none")
        => \A k \in DOMAIN last.damage_list :
              /\ last.rolled[k].num_dice = 2 * last.damage_list[k].num
              /\ last.rolled[k].value = CritValue(k, OwnAbility(last.damage_list[k]))

\* C27, amended: on a critical hit every damage entry throws twice its listed
\* number of dice, its flat modifier is added once and its ability modifier
\* once, except that an off-hand attack leaves a positive ability modifier
\* out; the damage of a type is the sum of its entries.
C27_CritDoublesDiceOnly ==
    (last.op = "roll_damage" /\ last.crit /\ err = "none")
        => /\ Len(last.rolled) = Len(last.damage_list)
           /\ \A k \in DOMAIN last.damage_list :
                 LET entry == last.damage_list[k]
                     done == last.rolled[k]
                 IN /\ done.num_dice = 2 * entry.num
                    /\ entry.fac > 1 => done.thrown = 2 * entry.num
                    /\ done.value = CritValue(k, AbilityPart(entry))
           /\ \A j \in DOMAIN last.damage :
                 last.damage[j].value = TypeTotal(last.damage[j].type, Len(last.damage_list))

\* a critical hit with an entry of 2d4+1 and an entry whose ability adds +2
C27_Witness ==
    /\ last.op = "roll_damage"
    /\ last.crit
    /\ err = "none"
    /\ Len(last.rolled) = 2
    /\ last.damage_list[1].num = 2 /\ last.rolled[1].thrown = 4
    /\ last.damage_list[1].mod = 1
    /\ AbilityPart(last.damage_list[2]) = 2
    /\ last.rolled[2].value = Faces(4, 2) + 2 + 2

\* the attack rolls an attack action is to make: the multi of the attack
\* definition times the factor of the action name
RollsDue == Attacks[last.additional["attack"]].multi * attack_factor(last.act.name)

\* the rolls made went round-robin over the accepted targets
RoundRobin ==
    \A k \in DOMAIN last.log :
        last.log[k].target = last.accepted[((k - 1) % Len(last.accepted)) + 1]

\* C28: an attack action makes exactly multi x k attack rolls, k being 2, 3
\* or 4 for extra_attack, extra_attack_3 and extra_attack_4 and 1 otherwise,
\* the i-th of them (from 0) against accepted_targets[i mod n].
C28_AttackCountRoundRobin ==
    (/\ last.op = "do_action"
     /\ last.act.handle = "attack"
     /\ last.accepted # <<>>)
        => Len(last.log) = RollsDue /\ RoundRobin

\* the same of the attack actions that return
C28_ReturnedAttacks ==
    (/\ last.op = "do_action"
     /\ last.act.handle = "attack"
     /\ last.accepted # <<>>
     /\ err = "none")
        => Len(last.log) = RollsDue /\ RoundRobin

\* C29: when start_turn returns, regular_action, bonus_action and reaction are
\* 1 and movement is the speed the character has then, whatever the counters
\* were and whatever conditions the character held before the call.
C29_StartTurnResets ==
    (last.op = "start_turn" /\ err = "none")
        => /\ char_resources.regular_action = 1
           /\ char_resources.bonus_action = 1
           /\ char_resources.reaction = 1
           /\ char_resources.movement = char_stats.speed

\* a turn starts for a character that was grappled until then, with no
\* movement, no reaction and other than one action: the grapple ends and the
\* movement is the speed regained
C29_Witness ==
    /\ last.op = "start_turn"
    /\ err = "none"
    /\ "grappled" \in last.pre_conds
    /\ ~Has("grappled")
    /\ last.pre_resources.reaction = 0
    /\ last.pre_resources.regular_action # 1
    /\ last.pre_resources.movement = 0
    /\ char_resources.reaction = 1
    /\ char_resources.movement = char_stats.speed
    /\ char_stats.speed > 0

\* C30: after long_rest on a living character with more than 0 HP, hp is
\* max_hp and the slots left of every level 1 to 9 are that level's ceiling,
\* whatever classes the character has.
C30_LongRestRestoresAll ==
    (/\ last.op = "long_rest"
     /\ last.pre_hp > 0
     /\ "death" \notin last.pre_conds
     /\ err = "none")
        => /\ char_resources.hp = char_stats.max_hp
           /\ \A l \in SlotLevels : char_resources.spell_slots[l] = char_stats.slots[l]

\* the same of a character with levels in bard, cleric, druid or warlock
C30_RestoresSlotsOfFourClasses ==
    (/\ last.op = "long_rest"
     /\ last.pre_hp > 0
     /\ "death" \notin last.pre_conds
     /\ err = "none"
     /\ DOMAIN char_stats.class_level \cap {"bard", "cleric", "druid", "warlock"} # {})
        => /\ char_resources.hp = char_stats.max_hp
           /\ \A l \in SlotLevels : char_resources.spell_slots[l] = char_stats.slots[l]

\* the hit dice a pool holds less than its ceilings
Missing(hit_dice) ==
    SumHitDice([f \in HitDieFaces |-> char_stats.hit_dice[f] - hit_dice[f]])

\* the hit dice a long rest is due to restore
RestoreDue == Min(Max(char_stats.tot_hd \div 2, 1), Missing(last.pre_hit_dice))

\* C31: a long rest that takes place (more than 0 HP, not dead) restores
\* exactly min(max(tot_hd // 2, 1), missing hit dice) hit dice, no size above
\* its ceiling, and a size gains a die only if every larger size is full.
C31_LongRestHitDice ==
    (/\ last.op = "long_rest"
     /\ last.pre_hp > 0
     /\ "death" \notin last.pre_conds
     /\ err = "none")
        => /\ \A f \in HitDieFaces :
                 /\ last.pre_hit_dice[f] <= char_resources.hit_dice[f]
                 /\ char_resources.hit_dice[f] <= char_stats.hit_dice[f]
           /\ Missing(last.pre_hit_dice) - Missing(char_resources.hit_dice) = RestoreDue
           /\ \A f, g \in HitDieFaces :
                 (f > g /\ char_resources.hit_dice[g] > last.pre_hit_dice[g])
                     => char_resources.hit_dice[f] = char_stats.hit_dice[f]

\* a long rest of a character of six hit dice that misses two d12 and two d8:
\* three are due, the d12 are both restored, one d8 is and one stays missing
C31_Witness ==
    /\ last.op = "long_rest"
    /\ last.pre_hp > 0
    /\ err = "none"
    /\ char_stats.tot_hd = 6
    /\ last.pre_hit_dice[12] = 0
    /\ last.pre_hit_dice[8] = 1
    /\ char_resources.hit_dice[12] = 2
    /\ char_resources.hit_dice[8] = 2
    /\ Missing(char_resources.hit_dice) = 1

\* the hit dice a short rest spent
Spent == Missing(char_resources.hit_dice) - Missing(last.pre_hit_dice)

\* the sum of the first n of the hit die rolls
RECURSIVE RollSum(_, _)
RollSum(rolls, n) == IF n = 0 THEN 0 ELSE rolls[n] + RollSum(rolls, n - 1)

\* the total of roll + constitution modifier over the dice spent
HealTotal == RollSum(last.rolls, Spent) + Spent * get_mod(Self, "con")

\* a short rest that takes place and is given hit dice to spend
SpendsHitDice ==
    /\ last.op = "short_rest"
    /\ last.spend_dice # <<>>
    /\ last.pre_hp > 0
    /\ err = "none"

\* no size of hit dice drops below 0, and no more dice are spent than asked for
SpentWithinRequest ==
    /\ \A f \in HitDieFaces :
          /\ 0 <= char_resources.hit_dice[f]
          /\ char_resources.hit_dice[f] <= last.pre_hit_dice[f]
    /\ Spent <= Requested(last.spend_dice)

\* C32: a short rest with hit dice to spend heals by the total T of roll +
\* constitution modifier over the dice spent: hp is min(max_hp, hp before + T)
\* when T >= 0 and does not rise when T <= 0, and no hit dice count drops
\* below 0 or by more than was asked for.
C32_ShortRestHealsByTotal ==
    SpendsHitDice
        => /\ HealTotal >= 0 => char_resources.hp = Min(char_stats.max_hp, last.pre_hp + HealTotal)
           /\ HealTotal <= 0 => char_resources.hp <= last.pre_hp
           /\ SpentWithinRequest

\* the same of the rests whose total is not negative
C32_HealsByTotalUnlessNegative ==
    (SpendsHitDice /\ HealTotal >= 0)
        => /\ char_resources.hp = Min(char_stats.max_hp, last.pre_hp + HealTotal)
           /\ SpentWithinRequest

\* a movement action that returned
Moved ==
    /\ last.op = "do_action"
    /\ err = "none"

Difficult == "difficult" \in DOMAIN last.additional

Slow == last.act.name \in SlowModes

\* the distance reported is the hundredth nearest distance / divisor
ReportsQuotient(divisor) ==
    LET reported == last.ret["hero"].actual_dist
        asked == 100 * last.additional["distance"]
    IN /\ 2 * (reported * divisor - asked) <= divisor
       /\ 2 * (asked - reported * divisor) <= divisor

\* C33 as claimed: the distance reported is the distance asked for over a
\* divisor, rounded to 2 decimals; difficult terrain doubles the divisor and a
\* slow mode doubles it again (2 on normal terrain, 4 on difficult terrain).
C33_SlowModeStacksByProduct ==
    Moved => ReportsQuotient((IF Difficult THEN 2 ELSE 1) * (IF Slow THEN 2 ELSE 1))

\* C33: the distance reported is the distance asked for over a divisor,
\* rounded to 2 decimals; the divisor is 1, doubled on difficult terrain, and
\* 1 more for a slow mode (2 on normal terrain, 3 on difficult terrain).
C33_SlowModeAddsOne ==
    Moved => ReportsQuotient((IF Difficult THEN 2 ELSE 1) + (IF Slow THEN 1 ELSE 0))

\* a climb of 10 feet over difficult terrain is reported as 3.33 feet
C33_Witness ==
    /\ Moved
    /\ Difficult
    /\ last.act.name = "climb"
    /\ last.additional["distance"] = 10
    /\ last.ret["hero"].actual_dist = 333

\* get_random_action returned
Chose ==
    /\ last.op = "get_random_action"
    /\ err = "none"

\* C34 as claimed: for a dead character, and for an incapacitated character
\* that is not dying, get_random_action returns no action whatever the type.
C34_NoActionWhenIncapacitated ==
    (Chose /\ (Has("death") \/ (Has("incapacitated") /\ ~Has("dying"))))
        => last.ret[1] = "None"

\* C34: get_random_action returns no action of any type for a dead character
\* and for one that is not dying and is unconscious, petrified, paralyzed or
\* stunned; for one that is not dying and is incapacitated it returns no
\* regular action, no bonus action and no reaction.
C34_NoActionByCondition ==
    Chose
        => /\ Has("death") => last.ret[1] = "None"
           /\ (~Has("dying") /\ \E name \in IncapacitatingConditions : Has(name))
                  => last.ret[1] = "None"
           /\ (~Has("dying") /\ Has("incapacitated")
                             /\ last.act_type \in {"regular", "bonus", "reaction"})
                  => last.ret[1] = "None"

\* a character that is incapacitated and nothing more is asked for a bonus
\* action and gets none, though it has one
C34_Witness ==
    /\ Chose
    /\ Has("incapacitated")
    /\ ~Has("dying")
    /\ ~Has("death")
    /\ \A name \in IncapacitatingConditions : ~Has(name)
    /\ last.act_type = "bonus"
    /\ last.ret[1] = "None"

\* C35: remove_condition for a name the character does not have does not
\* raise and leaves the registry, the resources and the stats as they were.
C35_RemoveMissingIsNoOp ==
    (last.op = "remove_condition" /\ last.name \notin last.pre_conds)
        => /\ err = "none"
           /\ char_conditions = last.pre
           /\ char_resources = last.pre_resources
           /\ char_stats = last.pre_stats

\* the same without the exception: whatever remove_condition raises for a
\* missing name, it leaves the registry, the resources and the stats alone
C35_RemoveMissingChangesNothing ==
    (last.op = "remove_condition" /\ last.name \notin last.pre_conds)
        => /\ char_conditions = last.pre
           /\ char_resources = last.pre_resources
           /\ char_stats = last.pre_stats

\* C36: a character that has any of paralyzed, petrified, stunned or
\* unconscious also has incapacitated, in every state a call returned in.
C36_IncapacitatingImpliesIncapacitated ==
    (err = "none" /\ \E name \in IncapacitatingConditions : Has(name))
        => Has("incapacitated")

\* the same right after an incapacitating condition was gained
C36_IncapacitatedOnGain ==
    (/\ err = "none"
     /\ last.op = "add_condition"
     /\ last.name \in IncapacitatingConditions)
        => Has("incapacitated")

\* the character is grappled or restrained
Slowed == Has("grappled") \/ Has("restrained")

\* C37: in every state a call returned in, a character that has grappled or
\* restrained has speed 0 and movement 0, and one that has neither has the
\* speed it had before the first of them was gained.
C37_SpeedFollowsGrapple ==
    err = "none"
        => /\ Slowed => char_stats.speed = 0 /\ char_resources.movement = 0
           /\ ~Slowed => char_stats.speed = last.base

\* the calls C38 speaks of
LaterCalls == {"take_damage", "heal_hp", "do_death_save", "short_rest", "long_rest",
               "start_turn", "end_turn"}

\* death is kept at 0 HP, and neither dying nor stabilized is gained
StaysDead ==
    /\ Has("death")
    /\ hp = 0
    /\ Has("dying") => Had("dying")
    /\ Has("stabilized") => Had("stabilized")

\* C38: a character that has death and undergoes take_damage, heal_hp,
\* do_death_save, short_rest, long_rest, start_turn or end_turn, the call
\* returning, still has death and 0 HP afterwards and was given neither
\* dying nor stabilized.
C38_DeathIsAbsorbing ==
    (last.op \in LaterCalls /\ "death" \in last.pre_conds /\ err = "none") => StaysDead

\* the same of the calls other than take_damage, whether they returned or
\* raised, on a dead character that take_damage has not made dying
C38_AbsorbingButForDamage ==
    (/\ last.op \in LaterCalls \ {"take_damage"}
     /\ "death" \in last.pre_conds
     /\ "dying" \notin last.pre_conds)
        => StaysDead

\* what one entry of a damage dict counts for: nothing if the target is immune
\* to its type, half if it resists it, double if it is vulnerable to it
Counted(entry) ==
    IF entry.type \in char_stats.imm THEN 0
    ELSE IF entry.type \in char_stats.res THEN entry.value \div 2
    ELSE IF entry.type \in char_stats.vul THEN entry.value * 2
    ELSE entry.value

RECURSIVE CountedTotal(_)
CountedTotal(damage) ==
    IF damage = <<>> THEN 0 ELSE Counted(Head(damage)) + CountedTotal(Tail(damage))

\* C39: take_damage counts 0 for a type the target is immune to, half for a
\* resisted type, double for a vulnerable type and the full amount otherwise,
\* whatever conditions the target has, and takes that total from its hp (down
\* to 0).
C39_DamageByTypeOnly ==
    (last.op = "take_damage" /\ err = "none")
        => hp = Max(0, last.pre_hp - CountedTotal(last.damage))

\* the same of a target that is not petrified
C39_ByTypeUnlessPetrified ==
    (last.op = "take_damage" /\ err = "none" /\ "petrified" \notin last.pre_conds)
        => hp = Max(0, last.pre_hp - CountedTotal(last.damage))

\* every damage entry of the attacks of the last action took the ability it
\* is tagged with, or the one the attack roll of that attack took instead
OwnOrSubstituted ==
    \A k \in DOMAIN last.log :
        \A j \in DOMAIN last.log[k].rolled :
            LET entry == last.log[k].rolled[j]
            IN /\ entry.use_ability # entry.abl
                     => last.log[k].substituted = entry.use_ability
               /\ last.log[k].substituted = "" => entry.use_ability = entry.abl

\* C40: a damage entry uses a substituted ability only if the hit roll of
\* that same attack by that same attacker substituted it, and uses its own
\* tagged ability when the hit roll substituted none, whatever attacks were
\* resolved earlier by any character with the same attack definition.
C40_DamageFollowsOwnHitRoll ==
    last.op = "do_action" => OwnOrSubstituted

\* the same of an attack the action had not made an attack object for before
C40_FollowsOwnHitRollWhenNew ==
    (last.op = "do_action" /\ <<"attack", last.attack>> \notin DOMAIN last.pre_cache)
        => OwnOrSubstituted

====
